---- MODULE Spec2Model ----
(***************************************************************************)
(* The C boundary of the store (ffi/src/lib.rs): every exported function   *)
(* is one action over a heap of boxed values.  A handle is the address of  *)
(* a box; Box::into_raw gives a box to the caller, Box::from_raw takes it  *)
(* back and drops it.  The Engine (store, queries, transactions) is an     *)
(* external collaborator: its answers are nondeterministic inputs.         *)
(***************************************************************************)
EXTENDS Integers, Sequences, FiniteSets, TLC

VARIABLES heap, aliases, last, fatal, limit, pending, cb

vars == <<heap, aliases, last, fatal, limit, pending, cb>>

\* ---------------------------------------------------------------- bounds
MaxAddr == 4
MaxLen == 2

\* std::ptr::null() / std::ptr::null_mut()
NULL == 0

\* A run makes at most `limit.boxes` boxes on the caller's calls and uses at
\* most `limit.names` observer keys and callbacks and `limit.builders` query
\* builders; the heap has room
\* for them and for the boxes made for the notifications of its commits.
HeapSize == 2 * MaxAddr + 2

Addr == 1..HeapSize

\* ---------------------------------------------------------------- values
\* ValueType: the tags of a TypedValue, in declaration order.
TagSeq == <<"Long", "Ref", "Keyword", "Boolean", "Double", "Instant", "String", "Uuid">>

Tags == {TagSeq[i] : i \in 1..Len(TagSeq)}

\* The payloads a value is drawn from: zero and one more.
Vals == {0, 1}

\* The TypedValues the Engine can hand to the boundary.
EngineValues == {[tag |-> t, v |-> x] : t \in Tags, x \in Vals}

\* A row of n columns whose first column has the k-th tag, the next column the
\* next tag, and so on: every tag occurs at every index.
RowOf(k, n) == [i \in 1..n |-> [tag |-> TagSeq[((k + i - 2) % Len(TagSeq)) + 1], v |-> i % 2]]

EngineRows == {<<>>} \cup {RowOf(k, n) : k \in 1..Len(TagSeq), n \in 1..MaxLen}

\* Relations: m rows of the same n columns; the rows start with a Long or a String.
EngineRels == {<<>>} \cup {[j \in 1..m |-> RowOf(k, n)] : k \in {1, 7}, n \in 1..MaxLen, m \in 1..MaxLen}

\* Option<T>
Some(x) == <<x>>

None == <<>>

\* TypedValue::into_long and its siblings: Some exactly on the matching tag.
IntoTag(tag, tv) == IF tv.tag = tag THEN Some(tv.v) ELSE None

\* A null-terminated string made by string_to_c_char / c_char_from_rc.
CStr(form, x) == [form |-> form, v |-> x]

\* ------------------------------------------------------------------ heap
Obj(kind, val) == [kind |-> kind, st |-> "live", val |-> val]

NoObj == [kind |-> "none", st |-> "unalloc", val |-> <<>>]

\* Boxes are never reused: the n-th Box::new of a run gets address n.
Top == Cardinality({a \in Addr : heap[a].st # "unalloc"})

\* The boxes made on the caller's calls: all but the change list and the key
\* copy of each notification.
CallerTop == Top - 2 * Cardinality({a \in Addr : heap[a].kind = "TxChangeList"})

HasRoom(k) == CallerTop + k <= limit.boxes /\ Top + k <= HeapSize

Live(a) == a \in Addr /\ heap[a].st = "live" /\ fatal # "abort"

IsLive(a, kind) == a \in Addr /\ heap[a].st = "live" /\ heap[a].kind = kind

\* Whether a value owns heap storage of its own besides the box it sits in
\* (what the value's drop glue releases).
OwnsInner(kind, val) ==
    CASE kind = "Store" -> TRUE
      [] kind = "QueryBuilder" -> TRUE
      [] kind = "TypedValue" -> val.tag \in {"Keyword", "String"}
      [] kind \in {"Row", "RowSet"} -> Len(val) > 0
      [] kind \in {"ValIter", "RowIter"} -> val.cap > 0
      [] kind = "TxReport" -> DOMAIN val.tempids # {}
      [] kind = "TransactionChange" -> Len(val.changes) > 0
      [] kind = "TxChangeList" -> Len(val.reports) > 0
      [] OTHER -> FALSE

\* Variant: dropping a box releases nothing.
DropBox_keep(h, a) == h

\* drop(Box<T>): the value's drop glue runs and the box is released.
DropBox(h, a) == [h EXCEPT ![a].st = "freed"]

\* drop(Box<c_void>): the box is released, no drop glue runs.
DropRaw(h, a) == [h EXCEPT ![a].st = IF OwnsInner(h[a].kind, h[a].val) THEN "leaked" ELSE "freed"]

Ret(k, x) == [k |-> k, v |-> x]

Call(op, arg, idx, ret) == [op |-> op, arg |-> arg, idx |-> idx, ret |-> ret]

\* Variant: a negative index is taken for the first index.
AsUsize_clamp(i) == IF i < 0 THEN 0 ELSE i

\* `index as usize` of a c_int: a negative index wraps to the top of the
\* usize range (2^64 + i).  TLC's integers end at 2^31 - 1, so the
\* wrapped value is placed at the top of that range instead.
AsUsize(i) == IF i < 0 THEN 2147483647 + i ELSE i

\* slice.get(i)
Get(s, i) == IF AsUsize(i) < Len(s) THEN Some(s[AsUsize(i) + 1]) ELSE None

Indices == -1..MaxLen

\* No callback is running.
NoCallback == [list |-> NULL, key |-> NULL, callback |-> "none"]

\* Nothing is allocated before the first call.
InitOf(n, names, builders) ==
    /\ heap = [a \in Addr |-> NoObj]
    /\ aliases = {}
    /\ last = Call("init", NULL, 0, Ret("void", 0))
    /\ fatal = "none"
    /\ limit = [boxes |-> n, names |-> names, builders |-> builders]
    /\ pending = {}
    /\ cb = NoCallback

InitFor(n, names) == InitOf(n, names, n)

InitWith(n) == InitFor(n, 1)

Init == InitWith(MaxAddr + 2)

\* A panic leaves the exported function: the locals are dropped while the
\* stack unwinds into the foreign caller, or the process aborts.
PanicOutcomes == {"unwind", "abort"}

\* ----------------------------------------------------------------- store
\* Store::open(&uri).expect("expected a store"), boxed.  "A store cannot be
\* opened twice to the same location": there is one location, and the caller
\* opens it once.
store_open ==
    /\ fatal = "none"
    /\ \A a \in Addr : heap[a].kind # "Store"
    /\ HasRoom(1)
    /\ \E opened \in BOOLEAN :
        IF opened
        THEN /\ heap' = [heap EXCEPT ![Top + 1] = Obj("Store", [observers |-> {}, next_tx |-> 1])]
             /\ last' = Call("store_open", NULL, 0, Ret("handle", Top + 1))
             /\ fatal' = fatal
        ELSE /\ \E o \in PanicOutcomes : fatal' = o
             /\ heap' = heap
             /\ last' = Call("store_open", NULL, 0, Ret("none", 0))
    /\ UNCHANGED <<aliases, limit, pending, cb>>

\* ----------------------------------------------------- result envelopes
\* What the Engine answered: Ok(value), Ok(None) or Err(e).
OkOut(kind, val) == [res |-> "ok", kind |-> kind, val |-> val]

NoneOut == [res |-> "none", kind |-> "none", val |-> <<>>]

ErrOut(e) == [res |-> "err", kind |-> "CString", val |-> CStr(e, 0)]

\* impl From<Result<T, E>> for ExternResult; p is the box made for the payload
\* (Box::new(value)) or for the message (string_to_c_char(e.description())).
ExternResult_from(out, p) ==
    IF out.res = "ok"
    THEN [err |-> NULL, ok |-> p]
    ELSE [err |-> p, ok |-> NULL]

\* Variant: the three-armed match replaced by result.into(), which has no arm
\* for Ok(None).
MatchOptionResult_into(out, p) == ExternResult_from(out, p)

\* The three-armed match of query_builder_execute_scalar,
\* query_builder_execute_tuple and store_value_for_attribute.
MatchOptionResult(out, p) ==
    CASE out.res = "ok" -> [err |-> NULL, ok |-> p]
      [] out.res = "none" -> [err |-> NULL, ok |-> NULL]
      [] OTHER -> [err |-> p, ok |-> NULL]

\* Box::into_raw(Box::new(extern_result)): the payload box (if any) was made
\* first, the envelope box last.  The envelope remembers which operation made
\* it and what the Engine had answered; call is what `last` records of the
\* call, to which the returned handle is added.
ReturnResultAs(h, call, out, slots) ==
    LET n == Top
        k == IF out.res = "none" THEN 0 ELSE 1
        env == [ok |-> slots.ok, err |-> slots.err, op |-> call.op, res |-> out.res]
    IN  /\ HasRoom(k + 1)
        /\ heap' = [a \in Addr |->
                      IF k = 1 /\ a = n + 1 THEN Obj(out.kind, out.val)
                      ELSE IF a = n + k + 1 THEN Obj("ExternResult", env)
                      ELSE h[a]]
        /\ last' = [call EXCEPT !.ret = Ret("handle", n + k + 1)]

ReturnResultAt(h, op, arg, idx, out, slots) ==
    ReturnResultAs(h, Call(op, arg, idx, Ret("void", 0)), out, slots)

ReturnResultOn(h, op, arg, out, slots) == ReturnResultAt(h, op, arg, 0, out, slots)

ReturnResult(op, arg, out, slots) == ReturnResultOn(heap, op, arg, out, slots)

\* A function whose result goes through result.into().
IntoResultCall(op, arg, kind, payloads, errors) ==
    \/ \E v \in payloads :
         ReturnResult(op, arg, OkOut(kind, v), ExternResult_from(OkOut(kind, v), Top + 1))
    \/ \E e \in errors :
         ReturnResult(op, arg, ErrOut(e), ExternResult_from(ErrOut(e), Top + 1))

\* A function that matches on Result<Option<T>>.
OptionResultCall(op, arg, kind, payloads, errors) ==
    \/ \E v \in payloads :
         ReturnResult(op, arg, OkOut(kind, v), MatchOptionResult(OkOut(kind, v), Top + 1))
    \/ ReturnResult(op, arg, NoneOut, MatchOptionResult(NoneOut, Top + 1))
    \/ \E e \in errors :
         ReturnResult(op, arg, ErrOut(e), MatchOptionResult(ErrOut(e), Top + 1))

\* Variant: the failure is swallowed and a default value is returned.
Panic_silent(op, arg, idx, h) ==
    /\ fatal' = fatal
    /\ heap' = h
    /\ last' = Call(op, arg, idx, Ret("int", 0))

\* panic!: the call returns nothing.  h is the heap once the locals are dropped.
Panic(op, arg, idx, h) ==
    /\ \E o \in PanicOutcomes :
         /\ fatal' = o
         /\ heap' = IF o = "unwind" THEN h ELSE heap
    /\ last' = Call(op, arg, idx, Ret("none", 0))

store_value_for_attribute ==
    /\ fatal = "none"
    /\ \E s \in Addr :
         /\ IsLive(s, "Store")
         /\ OptionResultCall("store_value_for_attribute", s, "TypedValue", EngineValues, {"err:lookup"})
    /\ UNCHANGED <<aliases, fatal, limit, pending, cb>>

\* ------------------------------------------------------- value envelopes
\* The *mut TypedValue pointers the caller holds: the boxes handed to it
\* (i = 0) and the pointers value_at_index gave it, which point at element i
\* of a live Vec<TypedValue> (i >= 1).
Ptr(a, i) == [a |-> a, i |-> i]

TVPointers ==
    {Ptr(a, 0) : a \in {x \in Addr : IsLive(x, "TypedValue")}}
      \cup {Ptr(al[1], al[2] + 1) : al \in aliases}

Deref(p) == IF p.i = 0 THEN heap[p.a].val ELSE heap[p.a].val[p.i]

\* Box::from_raw(p) dropped at the end of the function.  For a box the caller
\* owns, the box is released.  For a pointer into a Vec's buffer the drop
\* releases storage that was never a box: the element is dropped under the Vec
\* that still owns it, or the allocator aborts the process.
FromRawOutcomes(p) == IF p.i = 0 THEN {"dropped"} ELSE {"corrupt", "abort"}

\* Variant: the function reads through the pointer and releases nothing.
AfterFromRaw_borrow(h, p, o) == h

AfterFromRaw(h, p, o) ==
    CASE o = "dropped" -> DropBox(h, p.a)
      [] o = "corrupt" -> [h EXCEPT ![p.a].st = "corrupt"]
      [] OTHER -> h

\* Pointers into a Vec stop being usable with the Vec.
WithoutAliasesOf(a) == {al \in aliases : al[1] # a}

\* expect(msg) on the Option a coercion returned: the value, or a panic.
Expect(opt) == IF opt = None THEN [panic |-> TRUE, v |-> 0] ELSE [panic |-> FALSE, v |-> opt[1]]

\* typed_value_as_T: let typed_value = Box::from_raw(typed_value);
\* typed_value.into_T().expect(..).  form is "int" for a by-value result, or
\* the kind of string that is allocated for the result.
TypedValueAs(op, tag, form) ==
    /\ fatal = "none"
    /\ \E p \in TVPointers :
         \E o \in FromRawOutcomes(p) :
           LET r == Expect(IntoTag(tag, Deref(p)))
               h == AfterFromRaw(heap, p, o)
           IN  /\ aliases' = WithoutAliasesOf(p.a)
               /\ IF o = "abort"
                  THEN /\ fatal' = "abort"
                       /\ heap' = heap
                       /\ last' = Call(op, p.a, p.i, Ret("none", 0))
                  ELSE IF r.panic
                  THEN Panic(op, p.a, p.i, h)
                  ELSE IF form = "int"
                  THEN /\ heap' = h
                       /\ last' = Call(op, p.a, p.i, Ret("int", r.v))
                       /\ fatal' = fatal
                  ELSE /\ HasRoom(1)
                       /\ heap' = [h EXCEPT ![Top + 1] = Obj("CString", CStr(form, r.v))]
                       /\ last' = Call(op, p.a, p.i, Ret("handle", Top + 1))
                       /\ fatal' = fatal
    /\ UNCHANGED <<limit, pending, cb>>

typed_value_as_long == TypedValueAs("typed_value_as_long", "Long", "int")

typed_value_as_entid == TypedValueAs("typed_value_as_entid", "Ref", "int")

typed_value_as_kw == TypedValueAs("typed_value_as_kw", "Keyword", "kw")

typed_value_as_boolean == TypedValueAs("typed_value_as_boolean", "Boolean", "int")

typed_value_as_double == TypedValueAs("typed_value_as_double", "Double", "int")

typed_value_as_timestamp == TypedValueAs("typed_value_as_timestamp", "Instant", "int")

typed_value_as_string == TypedValueAs("typed_value_as_string", "String", "str")

typed_value_as_uuid == TypedValueAs("typed_value_as_uuid", "Uuid", "uuid")

TagIndex(tag) == CHOOSE i \in 1..Len(TagSeq) : TagSeq[i] = tag

\* typed_value_value_type: reads through the pointer, consumes nothing.
typed_value_value_type ==
    /\ fatal = "none"
    /\ \E p \in TVPointers :
         last' = Call("typed_value_value_type", p.a, p.i, Ret("int", TagIndex(Deref(p).tag)))
    /\ UNCHANGED <<heap, aliases, fatal, limit, pending, cb>>

\* Entity ids a transaction can change.
Entids == 1..MaxLen

\* What current_schema().get_entid(&value) can answer: None, or the entity id
\* of the keyword.
GetEntid == {None} \cup {Some(e) : e \in Entids}

\* ---------------------------------------------------------------- queries
\* QueryBuilder::new(store, query): no variable is bound.
store_query ==
    /\ fatal = "none"
    /\ \E s \in Addr :
         /\ IsLive(s, "Store")
         /\ Cardinality({a \in Addr : heap[a].kind = "QueryBuilder"}) < limit.builders
         /\ HasRoom(1)
         /\ heap' = [heap EXCEPT ![Top + 1] = Obj("QueryBuilder", [store |-> s, values |-> <<>>])]
         /\ last' = Call("store_query", s, 0, Ret("handle", Top + 1))
    /\ UNCHANGED <<aliases, fatal, limit, pending, cb>>

\* The variable the caller binds.
Var == "?x"

\* values.insert(var, value): an earlier binding of the variable is replaced.
Insert(values, var, value) ==
    [x \in DOMAIN values \cup {var} |-> IF x = var THEN value ELSE values[x]]

\* The record of a bind call: `input` is the value the caller passed.
BindCall(op, q, input) == [op |-> op, arg |-> q, idx |-> 0, ret |-> Ret("void", 0), input |-> input]

\* query_builder_bind_T: let query_builder = &mut*query_builder;
\* query_builder.bind_T(&var, value) with the TypedValue made of the value.
Bind(op, input, typed_value) ==
    /\ fatal = "none"
    /\ \E q \in Addr :
         /\ IsLive(q, "QueryBuilder")
         /\ heap' = [heap EXCEPT ![q].val.values = Insert(@, Var, typed_value)]
         /\ last' = BindCall(op, q, input)
    /\ UNCHANGED <<aliases, fatal, limit, pending, cb>>

\* A panic of a bind function before the builder is touched.
BindPanic(op, input) ==
    /\ fatal = "none"
    /\ \E q \in Addr :
         /\ IsLive(q, "QueryBuilder")
         /\ \E o \in PanicOutcomes : fatal' = o
         /\ heap' = heap
         /\ last' = [BindCall(op, q, input) EXCEPT !.ret = Ret("none", 0)]
    /\ UNCHANGED <<aliases, limit, pending, cb>>

\* The i64 and f64 values the caller binds: a negative one, zero, a positive one.
Numbers == {-1, 0, 1}

\* The strings the caller passes: Vals names their contents, 0 being the
\* empty string (and the nil UUID among the UUID strings).
Strings(form) == {CStr(form, x) : x \in Vals}

query_builder_bind_long ==
    \E value \in Numbers : Bind("query_builder_bind_long", value, [tag |-> "Long", v |-> value])

query_builder_bind_ref ==
    \E value \in Vals : Bind("query_builder_bind_ref", value, [tag |-> "Ref", v |-> value])

\* bind_ref_from_kw(&var, kw): the keyword is resolved to an entity id; an
\* unresolved keyword is an error, and the error is a panic.
query_builder_bind_ref_kw ==
    \E value \in Strings("kw"), entid \in GetEntid :
      IF entid = None
      THEN BindPanic("query_builder_bind_ref_kw", value)
      ELSE Bind("query_builder_bind_ref_kw", value, [tag |-> "Ref", v |-> entid[1]])

\* kw_from_string(c_char_to_string(value))
kw_from_string(s) == s.v

query_builder_bind_kw ==
    \E value \in Strings("kw") :
      Bind("query_builder_bind_kw", value, [tag |-> "Keyword", v |-> kw_from_string(value)])

\* TypedValue::from(bool), read back by `if b { 1 } else { 0 }`.
FromBool(value) == IF value THEN 1 ELSE 0

query_builder_bind_boolean ==
    \E value \in BOOLEAN :
      Bind("query_builder_bind_boolean", value, [tag |-> "Boolean", v |-> FromBool(value)])

query_builder_bind_double ==
    \E value \in Numbers : Bind("query_builder_bind_double", value, [tag |-> "Double", v |-> value])

\* The Engine keeps an instant in microseconds since the epoch.
MicrosPerSecond == 1000000

\* An instant given in microseconds, as the epoch seconds into_timestamp
\* reads from it (the payload of an Instant in this model).
InstantOfMicros(micros) == micros \div MicrosPerSecond

\* Variant: the platform time value is taken for microseconds.
bind_instant_raw(value) == InstantOfMicros(value)

\* bind_instant(&var, value as i64): the platform time value, in seconds, is
\* normalized to the Engine's representation.
bind_instant(value) == InstantOfMicros(value * MicrosPerSecond)

\* Variant: the time value is bound as it is given.
query_builder_bind_timestamp_raw ==
    \E value \in Numbers :
      Bind("query_builder_bind_timestamp", value, [tag |-> "Instant", v |-> bind_instant_raw(value)])

query_builder_bind_timestamp ==
    \E value \in Numbers :
      Bind("query_builder_bind_timestamp", value, [tag |-> "Instant", v |-> bind_instant(value)])

\* c_char_to_string(value)
c_char_to_string(s) == s.v

query_builder_bind_string ==
    \E value \in Strings("str") :
      Bind("query_builder_bind_string", value, [tag |-> "String", v |-> c_char_to_string(value)])

\* Uuid::parse_str: the UUID of a string in a UUID form, an error otherwise.
Uuid_parse_str(s) == IF s.form = "uuid" THEN Some(s.v) ELSE None

\* Uuid::parse_str(..).expect("valid uuid") comes before the builder is touched.
query_builder_bind_uuid ==
    \E value \in Strings("uuid") \cup {CStr("str", 1)} :
      LET uuid == Uuid_parse_str(value)
      IN  IF uuid = None
          THEN BindPanic("query_builder_bind_uuid", value)
          ELSE Bind("query_builder_bind_uuid", value, [tag |-> "Uuid", v |-> uuid[1]])

\* The builder borrows the Store it was made from.
Builders == {q \in Addr : IsLive(q, "QueryBuilder") /\ IsLive(heap[q].val.store, "Store")}

\* What the builder's variable is bound to, if it is bound.
BoundValues(q) == {heap[q].val.values[x] : x \in DOMAIN heap[q].val.values}

\* The query projects its input variable ([:find ?x . :in ?x] and its
\* tuple, coll and rel forms): the Engine answers with the value the variable
\* is bound to.  `last.idx` is 1 for such an answer; `option` tells the
\* Option-returning entry points (scalar, tuple) from the others.
Projected(op, q, kind, payloads, option) ==
    \E v \in payloads :
      ReturnResultAt(heap, op, q, 1, OkOut(kind, v),
                     IF option THEN MatchOptionResult(OkOut(kind, v), Top + 1)
                               ELSE ExternResult_from(OkOut(kind, v), Top + 1))

\* Variant: the function takes the builder back with Box::from_raw and drops it.
query_builder_execute_scalar_take ==
    /\ fatal = "none"
    /\ \E q \in Builders :
         \/ \E v \in EngineValues :
              ReturnResultOn(DropBox(heap, q), "query_builder_execute_scalar", q, OkOut("TypedValue", v),
                             MatchOptionResult(OkOut("TypedValue", v), Top + 1))
         \/ ReturnResultOn(DropBox(heap, q), "query_builder_execute_scalar", q, NoneOut,
                           MatchOptionResult(NoneOut, Top + 1))
    /\ UNCHANGED <<aliases, fatal, limit, pending, cb>>

\* let query_builder = &mut*query_builder; query_builder.execute_scalar()
query_builder_execute_scalar ==
    /\ fatal = "none"
    /\ \E q \in Builders :
         \/ OptionResultCall("query_builder_execute_scalar", q, "TypedValue", EngineValues, {"err:query"})
         \/ Projected("query_builder_execute_scalar", q, "TypedValue", BoundValues(q), TRUE)
    /\ UNCHANGED <<aliases, fatal, limit, pending, cb>>

query_builder_execute_coll ==
    /\ fatal = "none"
    /\ \E q \in Builders :
         \/ IntoResultCall("query_builder_execute_coll", q, "Row", EngineRows, {"err:query"})
         \/ Projected("query_builder_execute_coll", q, "Row", {<<v>> : v \in BoundValues(q)}, FALSE)
    /\ UNCHANGED <<aliases, fatal, limit, pending, cb>>

query_builder_execute_tuple ==
    /\ fatal = "none"
    /\ \E q \in Builders :
         \/ OptionResultCall("query_builder_execute_tuple", q, "Row", EngineRows, {"err:query"})
         \/ Projected("query_builder_execute_tuple", q, "Row", {<<v>> : v \in BoundValues(q)}, TRUE)
    /\ UNCHANGED <<aliases, fatal, limit, pending, cb>>

query_builder_execute ==
    /\ fatal = "none"
    /\ \E q \in Builders :
         \/ IntoResultCall("query_builder_execute", q, "RowSet", EngineRels, {"err:query"})
         \/ Projected("query_builder_execute", q, "RowSet", {<<<<v>>>> : v \in BoundValues(q)}, FALSE)
    /\ UNCHANGED <<aliases, fatal, limit, pending, cb>>

\* ------------------------------------------------------------ collections
\* result.get(index as usize).map_or(null_mut(), |v| Box::into_raw(Box::new(v.clone())))
row_at_index ==
    /\ fatal = "none"
    /\ \E a \in Addr, i \in Indices :
         /\ IsLive(a, "RowSet")
         /\ LET r == Get(heap[a].val, i)
            IN  IF r = None
                THEN /\ heap' = heap
                     /\ last' = Call("row_at_index", a, i, Ret("null", 0))
                ELSE /\ HasRoom(1)
                     /\ heap' = [heap EXCEPT ![Top + 1] = Obj("Row", r[1])]
                     /\ last' = Call("row_at_index", a, i, Ret("handle", Top + 1))
    /\ UNCHANGED <<aliases, fatal, limit, pending, cb>>

\* Variant: the iterator is made from a copy of the borrowed collection.
IntoIter_borrow(op, from, to) ==
    /\ fatal = "none"
    /\ \E a \in Addr :
         /\ IsLive(a, from)
         /\ HasRoom(1)
         /\ heap' = [heap EXCEPT
                       ![Top + 1] = Obj(to, [cap |-> Len(heap[a].val), rest |-> heap[a].val])]
         /\ last' = Call(op, a, 0, Ret("handle", Top + 1))
    /\ UNCHANGED <<aliases, fatal, limit, pending, cb>>

\* Box::from_raw(c) moved into a new Box<vec::IntoIter<_>>: the Vec's box is
\* released, its buffer and elements now belong to the iterator.
IntoIter(op, from, to) ==
    /\ fatal = "none"
    /\ \E a \in Addr :
         /\ IsLive(a, from)
         /\ HasRoom(1)
         /\ heap' = [DropBox(heap, a) EXCEPT
                       ![Top + 1] = Obj(to, [cap |-> Len(heap[a].val), rest |-> heap[a].val])]
         /\ aliases' = WithoutAliasesOf(a)
         /\ last' = Call(op, a, 0, Ret("handle", Top + 1))
    /\ UNCHANGED <<fatal, limit, pending, cb>>

rows_iter == IntoIter("rows_iter", "RowSet", "RowIter")

values_iter == IntoIter("values_iter", "Row", "ValIter")

\* Variant: iter.next().expect(..) in place of map_or(null_mut(), ..).
IterNext_expect(op, iter, elem) ==
    /\ fatal = "none"
    /\ \E it \in Addr :
         /\ IsLive(it, iter)
         /\ IF heap[it].val.rest = <<>>
            THEN Panic(op, it, 0, heap)
            ELSE /\ HasRoom(1)
                 /\ heap' = [heap EXCEPT ![it].val.rest = Tail(@),
                                         ![Top + 1] = Obj(elem, Head(heap[it].val.rest))]
                 /\ last' = Call(op, it, 0, Ret("handle", Top + 1))
                 /\ fatal' = fatal
    /\ UNCHANGED <<aliases, limit, pending, cb>>

\* iter.next().map_or(null_mut(), |v| Box::into_raw(Box::new(v)))
IterNext(op, iter, elem) ==
    /\ fatal = "none"
    /\ \E it \in Addr :
         /\ IsLive(it, iter)
         /\ IF heap[it].val.rest = <<>>
            THEN /\ heap' = heap
                 /\ last' = Call(op, it, 0, Ret("null", 0))
            ELSE /\ HasRoom(1)
                 /\ heap' = [heap EXCEPT ![it].val.rest = Tail(@),
                                         ![Top + 1] = Obj(elem, Head(heap[it].val.rest))]
                 /\ last' = Call(op, it, 0, Ret("handle", Top + 1))
    /\ UNCHANGED <<aliases, fatal, limit, pending, cb>>

rows_iter_next == IterNext("rows_iter_next", "RowIter", "Row")

values_iter_next == IterNext("values_iter_next", "ValIter", "TypedValue")

\* values_iter_next_as_T: iter.next().map_or(null_mut(), |v| <coercion of v>).
\* form says what the closure makes of the coerced value x:
\*   "ref":  &x as *const T, the address of a temporary of the closure;
\*   "cast": x as *const i64, the number itself as an address;
\*   else:   a string allocated for x.
ValuesIterNextAs(op, tag, form) ==
    /\ fatal = "none"
    /\ \E it \in Addr :
         /\ IsLive(it, "ValIter")
         /\ IF heap[it].val.rest = <<>>
            THEN /\ heap' = heap
                 /\ last' = Call(op, it, 0, Ret("null", 0))
                 /\ fatal' = fatal
            ELSE LET r == Expect(IntoTag(tag, Head(heap[it].val.rest)))
                     h == [heap EXCEPT ![it].val.rest = Tail(@)]
                 IN  IF r.panic
                     THEN Panic(op, it, 0, h)
                     ELSE IF form = "ref"
                     THEN /\ heap' = h
                          /\ last' = Call(op, it, 0, Ret("stack", r.v))
                          /\ fatal' = fatal
                     ELSE IF form = "cast"
                     THEN /\ heap' = h
                          /\ last' = Call(op, it, 0, Ret(IF r.v = NULL THEN "null" ELSE "addr", r.v))
                          /\ fatal' = fatal
                     ELSE /\ HasRoom(1)
                          /\ heap' = [h EXCEPT ![Top + 1] = Obj("CString", CStr(form, r.v))]
                          /\ last' = Call(op, it, 0, Ret("handle", Top + 1))
                          /\ fatal' = fatal
    /\ UNCHANGED <<aliases, limit, pending, cb>>

values_iter_next_as_long == ValuesIterNextAs("values_iter_next_as_long", "Long", "ref")

values_iter_next_as_entid == ValuesIterNextAs("values_iter_next_as_entid", "Ref", "ref")

values_iter_next_as_kw == ValuesIterNextAs("values_iter_next_as_kw", "Keyword", "kw")

values_iter_next_as_boolean == ValuesIterNextAs("values_iter_next_as_boolean", "Boolean", "ref")

values_iter_next_as_double == ValuesIterNextAs("values_iter_next_as_double", "Double", "ref")

values_iter_next_as_timestamp == ValuesIterNextAs("values_iter_next_as_timestamp", "Instant", "cast")

values_iter_next_as_string == ValuesIterNextAs("values_iter_next_as_string", "String", "str")

values_iter_next_as_uuid == ValuesIterNextAs("values_iter_next_as_uuid", "Uuid", "uuid")

\* result.get(index as usize).expect("No value at index") as *const TypedValue:
\* the address of the element inside the Vec, no copy.  The caller keeps the
\* pointer of its latest call.
value_at_index ==
    /\ fatal = "none"
    /\ \E a \in Addr, i \in Indices :
         /\ IsLive(a, "Row")
         /\ LET r == Expect(Get(heap[a].val, i))
            IN  IF r.panic
                THEN /\ Panic("value_at_index", a, i, heap)
                     /\ aliases' = aliases
                ELSE /\ heap' = heap
                     /\ aliases' = {<<a, i>>}
                     /\ last' = Call("value_at_index", a, i, Ret("alias", 0))
                     /\ fatal' = fatal
    /\ UNCHANGED <<limit, pending, cb>>

\* Variant: the element is taken out of the collection (values.remove(index))
\* instead of being cloned.
ValueAtIndexAs_take(op, tag, form) ==
    /\ fatal = "none"
    /\ \E a \in Addr, i \in Indices :
         /\ IsLive(a, "Row")
         /\ LET e == Expect(Get(heap[a].val, i))
                h == [heap EXCEPT ![a].val = SubSeq(@, 1, i) \o SubSeq(@, i + 2, Len(@))]
            IN  IF e.panic
                THEN Panic(op, a, i, heap)
                ELSE LET r == Expect(IntoTag(tag, e.v))
                     IN  IF r.panic
                         THEN Panic(op, a, i, h)
                         ELSE IF form = "int"
                         THEN /\ heap' = h
                              /\ last' = Call(op, a, i, Ret("int", r.v))
                              /\ fatal' = fatal
                         ELSE /\ HasRoom(1)
                              /\ heap' = [h EXCEPT ![Top + 1] = Obj("CString", CStr(form, r.v))]
                              /\ last' = Call(op, a, i, Ret("handle", Top + 1))
                              /\ fatal' = fatal
    /\ UNCHANGED <<aliases, limit, pending, cb>>

\* value_at_index_as_T: result.get(index as usize).expect("No value at index"),
\* then value.clone().into_T().expect(..).
ValueAtIndexAs(op, tag, form) ==
    /\ fatal = "none"
    /\ \E a \in Addr, i \in Indices :
         /\ IsLive(a, "Row")
         /\ LET e == Expect(Get(heap[a].val, i))
            IN  IF e.panic
                THEN Panic(op, a, i, heap)
                ELSE LET r == Expect(IntoTag(tag, e.v))
                     IN  IF r.panic
                         THEN Panic(op, a, i, heap)
                         ELSE IF form = "int"
                         THEN /\ heap' = heap
                              /\ last' = Call(op, a, i, Ret("int", r.v))
                              /\ fatal' = fatal
                         ELSE /\ HasRoom(1)
                              /\ heap' = [heap EXCEPT ![Top + 1] = Obj("CString", CStr(form, r.v))]
                              /\ last' = Call(op, a, i, Ret("handle", Top + 1))
                              /\ fatal' = fatal
    /\ UNCHANGED <<aliases, limit, pending, cb>>

value_at_index_as_long == ValueAtIndexAs("value_at_index_as_long", "Long", "int")

value_at_index_as_entid == ValueAtIndexAs("value_at_index_as_entid", "Ref", "int")

value_at_index_as_kw == ValueAtIndexAs("value_at_index_as_kw", "Keyword", "kw")

value_at_index_as_boolean == ValueAtIndexAs("value_at_index_as_boolean", "Boolean", "int")

value_at_index_as_double == ValueAtIndexAs("value_at_index_as_double", "Double", "int")

value_at_index_as_timestamp == ValueAtIndexAs("value_at_index_as_timestamp", "Instant", "int")

value_at_index_as_string == ValueAtIndexAs("value_at_index_as_string", "String", "str")

value_at_index_as_uuid == ValueAtIndexAs("value_at_index_as_uuid", "Uuid", "uuid")

\* ----------------------------------------------------------- transactions
TempIdKeys == {"t1"}

\* TxReport.tempids: temporary id -> entity id.
TempIdMaps == UNION {[D -> Vals] : D \in SUBSET TempIdKeys}

\* Entity ids of the attributes a transaction can touch or an observer watch.
Attrs == {1, 2}

NonEmpty(S) == SUBSET S \ {{}}

\* The observers of store s that watch one of attrs get the committed
\* transaction as a batch of one (transaction id, changed entity ids) pair.
Notifications(s, attrs, ents, tx) ==
    {[key |-> o.key, callback |-> o.callback, batch |-> <<[tx_id |-> tx, changes |-> ents]>>] :
        o \in {x \in heap[s].val.observers : x.attrs \cap attrs # {}}}

RECURSIVE AttrMask(_)
\* A set of attributes as a number, attribute a being bit a - 1: what `last`
\* records of a committed transaction.
AttrMask(attrs) ==
    IF attrs = {} THEN 0
    ELSE LET a == CHOOSE x \in attrs : TRUE
         IN  2 ^ (a - 1) + AttrMask(attrs \ {a})

\* The Engine committed a transaction of store s that changed the attributes
\* attrs of the entities ents: the report goes back through result.into(), the
\* observers concerned are queued for notification.
CommittedAs(call, s, tempids, instant, attrs, ents) ==
    LET tx == heap[s].val.next_tx
        out == OkOut("TxReport", [tx_id |-> tx, tx_instant |-> instant, tempids |-> tempids])
    IN  /\ ReturnResultAs([heap EXCEPT ![s].val.next_tx = @ + 1],
                          [call EXCEPT !.idx = AttrMask(attrs)], out, ExternResult_from(out, Top + 1))
        /\ pending' = pending \cup Notifications(s, attrs, ents, tx)

Committed(op, s, tempids, instant, attrs, ents) ==
    CommittedAs(Call(op, s, 0, Ret("void", 0)), s, tempids, instant, attrs, ents)

\* The Engine refused: Err(e) goes back through result.into().
FailedAs(call, e) ==
    /\ ReturnResultAs(heap, call, ErrOut(e), ExternResult_from(ErrOut(e), Top + 1))
    /\ pending' = pending

Failed(op, s, e) == FailedAs(Call(op, s, 0, Ret("void", 0)), e)

\* The steps of store_transact, in the order of the and_then chain.
TransactSteps == <<"begin_transaction", "transact", "commit">>

StepError == [begin_transaction |-> "err:begin", transact |-> "err:transact", commit |-> "err:commit"]

\* Result::and_then: the next step runs on Ok only.  Given what the Engine
\* answers to each step, the steps that ran with their outcomes: all up to the
\* first Err.
Ran(answers) ==
    LET failing == {i \in 1..Len(TransactSteps) : ~answers[i]}
        n == IF failing = {} THEN Len(TransactSteps) ELSE CHOOSE i \in failing : \A k \in failing : i <= k
    IN  [i \in 1..n |-> [step |-> TransactSteps[i], ok |-> answers[i]]]

\* The record of a store_transact call: `input` is the steps that ran.
TransactCall(s, ran) ==
    [op |-> "store_transact", arg |-> s, idx |-> 0, ret |-> Ret("void", 0), input |-> ran]

\* Variant: the outcome of commit is not looked at, .map(|_| tx_report)
\* applied to the transact result.
store_transact_uncommitted ==
    /\ fatal = "none"
    /\ \E s \in Addr :
         /\ IsLive(s, "Store")
         /\ \E answers \in [1..Len(TransactSteps) -> BOOLEAN] :
              LET ran == Ran(answers)
              IN  IF Len(ran) = Len(TransactSteps)
                  THEN \E tempids \in TempIdMaps, instant \in Vals :
                         \E attrs \in NonEmpty(Attrs), ents \in NonEmpty(Entids) :
                           CommittedAs(TransactCall(s, ran), s, tempids, instant, attrs, ents)
                  ELSE FailedAs(TransactCall(s, ran), StepError[ran[Len(ran)].step])
    /\ UNCHANGED <<aliases, fatal, limit, cb>>

\* store.begin_transaction().and_then(|mut in_progress|
\*     in_progress.transact(..).and_then(|tx_report| in_progress.commit().map(|_| tx_report)))
store_transact ==
    /\ fatal = "none"
    /\ \E s \in Addr :
         /\ IsLive(s, "Store")
         /\ \E answers \in [1..Len(TransactSteps) -> BOOLEAN] :
              LET ran == Ran(answers)
              IN  IF ran[Len(ran)].ok
                  THEN \E tempids \in TempIdMaps, instant \in Vals :
                         \E attrs \in NonEmpty(Attrs), ents \in NonEmpty(Entids) :
                           CommittedAs(TransactCall(s, ran), s, tempids, instant, attrs, ents)
                  ELSE FailedAs(TransactCall(s, ran), StepError[ran[Len(ran)].step])
    /\ UNCHANGED <<aliases, fatal, limit, cb>>

\* The temporary ids a caller can ask a report for: one no transaction uses
\* and the one a transaction can use.
LookupKeys == <<"t0", "t1">>

\* Variant: a temporary id the transaction never used resolves to entity 0.
TempIdGet_zero(tempids, key) == IF key \in DOMAIN tempids THEN Some(tempids[key]) ELSE Some(0)

\* tx_report.tempids.get(&key)
TempIdGet(tempids, key) == IF key \in DOMAIN tempids THEN Some(tempids[key]) ELSE None

\* tx_report.tx_id, read through &*tx_report.
tx_report_get_entid ==
    /\ fatal = "none"
    /\ \E r \in Addr :
         /\ IsLive(r, "TxReport")
         /\ last' = Call("tx_report_get_entid", r, 0, Ret("int", heap[r].val.tx_id))
    /\ UNCHANGED <<heap, aliases, fatal, limit, pending, cb>>

\* tx_report.tx_instant.timestamp(): the report's instant is held as the epoch
\* seconds it reads as.
tx_report_get_tx_instant ==
    /\ fatal = "none"
    /\ \E r \in Addr :
         /\ IsLive(r, "TxReport")
         /\ last' = Call("tx_report_get_tx_instant", r, 0, Ret("int", heap[r].val.tx_instant))
    /\ UNCHANGED <<heap, aliases, fatal, limit, pending, cb>>

\* if let Some(entid) = tx_report.tempids.get(&key) { Box::new(entid.clone()) }
\* else { null_mut() }; `last.idx` is the place of the key in LookupKeys.
tx_report_entity_for_temp_id ==
    /\ fatal = "none"
    /\ \E r \in Addr, k \in 1..Len(LookupKeys) :
         /\ IsLive(r, "TxReport")
         /\ LET entid == TempIdGet(heap[r].val.tempids, LookupKeys[k])
            IN  IF entid # None
                THEN /\ HasRoom(1)
                     /\ heap' = [heap EXCEPT ![Top + 1] = Obj("Entid", entid[1])]
                     /\ last' = Call("tx_report_entity_for_temp_id", r, k, Ret("handle", Top + 1))
                ELSE /\ heap' = heap
                     /\ last' = Call("tx_report_entity_for_temp_id", r, k, Ret("null", 0))
    /\ UNCHANGED <<aliases, fatal, limit, pending, cb>>

\* store.assert_datom(entid, kw, value), then res.into(): one attribute of
\* one entity is written in a transaction of its own.
assert_datom_as(call, s) ==
    \/ \E instant \in Vals, attr \in Attrs, ent \in Entids :
         CommittedAs(call, s, <<>>, instant, {attr}, {ent})
    \/ FailedAs(call, "err:assert")

assert_datom(op, s) == assert_datom_as(Call(op, s, 0, Ret("void", 0)), s)

StoreSet(op) ==
    /\ fatal = "none"
    /\ \E s \in Addr : IsLive(s, "Store") /\ assert_datom(op, s)
    /\ UNCHANGED <<aliases, fatal, limit, cb>>

store_set_long_for_attribute_on_entid == StoreSet("store_set_long_for_attribute_on_entid")

store_set_entid_for_attribute_on_entid == StoreSet("store_set_entid_for_attribute_on_entid")

store_set_boolean_for_attribute_on_entid == StoreSet("store_set_boolean_for_attribute_on_entid")

store_set_double_for_attribute_on_entid == StoreSet("store_set_double_for_attribute_on_entid")

store_set_timestamp_for_attribute_on_entid == StoreSet("store_set_timestamp_for_attribute_on_entid")

store_set_string_for_attribute_on_entid == StoreSet("store_set_string_for_attribute_on_entid")

\* The record of a store_set_kw_ref_for_attribute_on_entid call: `input` is
\* what the schema answered for the value keyword.
KwRefCall(s, is_valid) ==
    [op |-> "store_set_kw_ref_for_attribute_on_entid", arg |-> s, idx |-> 0,
     ret |-> Ret("void", 0), input |-> is_valid]

\* ExternResult { ok: null_mut(), err: string_to_c_char(format!("Unknown attribute {:?}", value)) }
UnknownAttribute == [res |-> "err", kind |-> "CString", val |-> CStr("Unknown attribute", 0)]

\* Variant: the write is made before the answer of the schema is looked at.
store_set_kw_ref_for_attribute_on_entid_late ==
    /\ fatal = "none"
    /\ \E s \in Addr :
         /\ IsLive(s, "Store")
         /\ \E is_valid \in GetEntid :
              IF is_valid = None
              THEN \E attr \in Attrs, ent \in Entids :
                     /\ ReturnResultAs([heap EXCEPT ![s].val.next_tx = @ + 1], KwRefCall(s, is_valid),
                                       UnknownAttribute, [ok |-> NULL, err |-> Top + 1])
                     /\ pending' = pending \cup Notifications(s, {attr}, {ent}, heap[s].val.next_tx)
              ELSE assert_datom_as(KwRefCall(s, is_valid), s)
    /\ UNCHANGED <<aliases, fatal, limit, cb>>

\* The value keyword is looked up in the schema first; when it is unknown the
\* function returns its own envelope and writes nothing.
store_set_kw_ref_for_attribute_on_entid ==
    /\ fatal = "none"
    /\ \E s \in Addr :
         /\ IsLive(s, "Store")
         /\ \E is_valid \in GetEntid :
              IF is_valid = None
              THEN /\ ReturnResultAs(heap, KwRefCall(s, is_valid), UnknownAttribute,
                                     [ok |-> NULL, err |-> Top + 1])
                   /\ pending' = pending
              ELSE assert_datom_as(KwRefCall(s, is_valid), s)
    /\ UNCHANGED <<aliases, fatal, limit, cb>>

\* Uuid::parse_str(..).expect("valid uuid") comes before the write.
store_set_uuid_for_attribute_on_entid ==
    /\ fatal = "none"
    /\ \E s \in Addr :
         /\ IsLive(s, "Store")
         /\ \E valid \in BOOLEAN :
              IF ~valid
              THEN /\ Panic("store_set_uuid_for_attribute_on_entid", s, 0, heap)
                   /\ pending' = pending
              ELSE /\ assert_datom("store_set_uuid_for_attribute_on_entid", s)
                   /\ fatal' = fatal
    /\ UNCHANGED <<aliases, limit, cb>>

store_sync ==
    /\ fatal = "none"
    /\ \E s \in Addr :
         /\ IsLive(s, "Store")
         /\ IntoResultCall("store_sync", s, "SyncOutcome", {<<>>}, {"err:sync"})
    /\ UNCHANGED <<aliases, fatal, limit, pending, cb>>

\* -------------------------------------------------------------- observers
\* The keys the caller registers observers under.
ObsKeys == {<<"k1", "k2">>[i] : i \in 1..limit.names}

\* The foreign functions the caller registers as callbacks.
Callbacks == {<<"f", "g">>[i] : i \in 1..limit.names}

\* The record of a call on an observer key: `input` is what the caller passed.
CallOn(op, arg, input) == [op |-> op, arg |-> arg, idx |-> 0, ret |-> Ret("void", 0), input |-> input]

\* Variant: the observer is added next to the one registered under the key.
store_register_observer_add ==
    /\ fatal = "none"
    /\ \E s \in Addr, key \in ObsKeys, attribute_set \in SUBSET Attrs, callback \in Callbacks :
         LET tx_observer == [key |-> key, attrs |-> attribute_set, callback |-> callback]
         IN  /\ IsLive(s, "Store")
             /\ heap' = [heap EXCEPT ![s].val.observers = @ \cup {tx_observer}]
             /\ last' = CallOn("store_register_observer", s, tx_observer)
    /\ UNCHANGED <<aliases, fatal, limit, pending, cb>>

\* store.register_observer(key, tx_observer): the observer registered under
\* key before, if any, is replaced.
store_register_observer ==
    /\ fatal = "none"
    /\ \E s \in Addr, key \in ObsKeys, attribute_set \in SUBSET Attrs, callback \in Callbacks :
         LET tx_observer == [key |-> key, attrs |-> attribute_set, callback |-> callback]
         IN  /\ IsLive(s, "Store")
             /\ heap' = [heap EXCEPT ![s].val.observers = {o \in @ : o.key # key} \cup {tx_observer}]
             /\ last' = CallOn("store_register_observer", s, tx_observer)
    /\ UNCHANGED <<aliases, fatal, limit, pending, cb>>

\* Variant: every observer of the store is removed.
store_unregister_observer_all ==
    /\ fatal = "none"
    /\ \E s \in Addr, key \in ObsKeys :
         /\ IsLive(s, "Store")
         /\ heap' = [heap EXCEPT ![s].val.observers = {}]
         /\ last' = CallOn("store_unregister_observer", s, key)
    /\ UNCHANGED <<aliases, fatal, limit, pending, cb>>

\* store.unregister_observer(&key)
store_unregister_observer ==
    /\ fatal = "none"
    /\ \E s \in Addr, key \in ObsKeys :
         /\ IsLive(s, "Store")
         /\ heap' = [heap EXCEPT ![s].val.observers = {o \in @ : o.key # key}]
         /\ last' = CallOn("store_unregister_observer", s, key)
    /\ UNCHANGED <<aliases, fatal, limit, pending, cb>>

RECURSIVE SortedSeq(_)
\* The elements of a BTreeSet<Entid> in iteration order.
SortedSeq(S) ==
    IF S = {} THEN <<>>
    ELSE LET m == CHOOSE x \in S : \A y \in S : x <= y
         IN  <<m>> \o SortedSeq(S \ {m})

\* Variant: the length is taken from the Vec before it is filled.
TransactionChange_unfilled(pair) ==
    [txid |-> pair.tx_id, changes |-> SortedSeq(pair.changes), changes_len |-> 0]

\* One (tx_id, changes) pair of a batch as a TransactionChange.
TransactionChange(pair) ==
    LET changes == SortedSeq(pair.changes)
    IN  [txid |-> pair.tx_id, changes |-> changes, changes_len |-> Len(changes)]

\* Variant: the callback is handed a list of no reports.
TxChangeList_empty(batch) == [reports |-> <<>>, len |-> 0]

\* The batch as the TxChangeList handed to the callback.
TxChangeList(batch) ==
    LET extern_reports == [i \in 1..Len(batch) |-> TransactionChange(batch[i])]
    IN  [reports |-> extern_reports, len |-> Len(extern_reports)]

\* The closure store_register_observer gave the Engine, up to the point where
\* it calls the foreign callback: the list is built, the key is copied with
\* string_to_c_char, the callback is entered.
observer_notify ==
    /\ fatal = "none"
    /\ cb = NoCallback
    /\ Top + 2 <= HeapSize
    /\ \E n \in pending :
         /\ heap' = [heap EXCEPT ![Top + 1] = Obj("TxChangeList", TxChangeList(n.batch)),
                                 ![Top + 2] = Obj("CString", CStr(n.key, 0))]
         /\ cb' = [list |-> Top + 1, key |-> Top + 2, callback |-> n.callback]
         /\ pending' = pending \ {n}
         /\ last' = Call("callback", Top + 1, 0, Ret("void", 0))
    /\ UNCHANGED <<aliases, fatal, limit>>

\* Variant: the closure takes the key copy back and drops it with `reports`.
observer_return_free_key ==
    /\ fatal = "none"
    /\ cb # NoCallback
    /\ heap' = [DropBox(heap, cb.list) EXCEPT ![cb.key].st = "freed"]
    /\ cb' = NoCallback
    /\ last' = Call("callback_return", cb.list, 0, Ret("void", 0))
    /\ UNCHANGED <<aliases, fatal, limit, pending>>

\* Variant: the closure ends and keeps `reports`.
observer_return_retain ==
    /\ fatal = "none"
    /\ cb # NoCallback
    /\ cb' = NoCallback
    /\ last' = Call("callback_return", cb.list, 0, Ret("void", 0))
    /\ UNCHANGED <<heap, aliases, fatal, limit, pending>>

\* The foreign callback returns: the closure ends and drops `reports`.
observer_return ==
    /\ fatal = "none"
    /\ cb # NoCallback
    /\ heap' = DropBox(heap, cb.list)
    /\ cb' = NoCallback
    /\ last' = Call("callback_return", cb.list, 0, Ret("void", 0))
    /\ UNCHANGED <<aliases, fatal, limit, pending>>

\* The transactions one commit of the Engine can hold: each changed some
\* attributes of some entities.
Txs(n) == [1..n -> [attrs : NonEmpty(Attrs), ents : NonEmpty(Entids)]]

RECURSIVE BatchFor(_, _, _)
\* What the Engine hands observer o of the transactions txs, the first of
\* which has id tx: the (transaction id, changed entity ids) pairs of those
\* that touch an attribute o watches, in commit order.
BatchFor(o, tx, txs) ==
    IF txs = <<>> THEN <<>>
    ELSE LET rest == BatchFor(o, tx + 1, Tail(txs))
         IN  IF Head(txs).attrs \cap o.attrs # {}
             THEN <<[tx_id |-> tx, changes |-> Head(txs).ents]>> \o rest
             ELSE rest

\* The Engine commits several transactions of a store together: each observer
\* they concern is queued one notification whose batch holds its pairs.
\* The store's transaction ids are capped at MaxLen.
commit_batch ==
    /\ fatal = "none"
    /\ \E s \in Addr, n \in 1..MaxLen :
         /\ IsLive(s, "Store")
         /\ heap[s].val.next_tx + n - 1 <= MaxLen
         /\ \E txs \in Txs(n) :
              /\ heap' = [heap EXCEPT ![s].val.next_tx = @ + n]
              /\ pending' = pending \cup
                   {[key |-> o.key, callback |-> o.callback, batch |-> BatchFor(o, heap[s].val.next_tx, txs)] :
                      o \in {x \in heap[s].val.observers : BatchFor(x, heap[s].val.next_tx, txs) # <<>>}}
              /\ last' = CallOn("commit_batch", s, txs)
    /\ UNCHANGED <<aliases, fatal, limit, cb>>

\* Box::new(tx_report_list.reports[index].clone())
tx_change_list_entry_at ==
    /\ fatal = "none"
    /\ \E l \in Addr, i \in Indices :
         /\ IsLive(l, "TxChangeList")
         /\ IF AsUsize(i) < Len(heap[l].val.reports)
            THEN /\ HasRoom(1)
                 /\ heap' = [heap EXCEPT ![Top + 1] =
                               Obj("TransactionChange", heap[l].val.reports[AsUsize(i) + 1])]
                 /\ last' = Call("tx_change_list_entry_at", l, i, Ret("handle", Top + 1))
                 /\ fatal' = fatal
            ELSE Panic("tx_change_list_entry_at", l, i, heap)
    /\ UNCHANGED <<aliases, limit, pending, cb>>

\* tx_report.changes[index].clone()
changelist_entry_at ==
    /\ fatal = "none"
    /\ \E c \in Addr, i \in Indices :
         /\ IsLive(c, "TransactionChange")
         /\ IF AsUsize(i) < Len(heap[c].val.changes)
            THEN /\ heap' = heap
                 /\ last' = Call("changelist_entry_at", c, i, Ret("int", heap[c].val.changes[AsUsize(i) + 1]))
                 /\ fatal' = fatal
            ELSE Panic("changelist_entry_at", c, i, heap)
    /\ UNCHANGED <<aliases, limit, pending, cb>>

\* ------------------------------------------------------------ destructors
\* Variant: the null check is missing, Box::from_raw(null) is dropped.
define_destructor_unchecked(name, kind) ==
    /\ fatal = "none"
    /\ \/ /\ last' = Call(name, NULL, 0, Ret("void", 0))
          /\ fatal' = "abort"
          /\ UNCHANGED <<heap, aliases, limit, pending, cb>>
       \/ \E a \in Addr :
            /\ IsLive(a, kind)
            /\ heap' = DropBox(heap, a)
            /\ aliases' = WithoutAliasesOf(a)
            /\ last' = Call(name, a, 0, Ret("void", 0))
            /\ UNCHANGED <<fatal, limit, pending, cb>>

\* define_destructor!(name, T): if !obj.is_null() { let _ = Box::from_raw(obj); }
define_destructor(name, kind) ==
    /\ fatal = "none"
    /\ \/ /\ last' = Call(name, NULL, 0, Ret("void", 0))
          /\ UNCHANGED <<heap, aliases, fatal, limit, pending, cb>>
       \/ \E a \in Addr :
            /\ IsLive(a, kind)
            /\ heap' = DropBox(heap, a)
            /\ aliases' = WithoutAliasesOf(a)
            /\ last' = Call(name, a, 0, Ret("void", 0))
            /\ UNCHANGED <<fatal, limit, pending, cb>>

store_destroy == define_destructor("store_destroy", "Store")

\* typed_value_destroy, on any *mut TypedValue the caller holds: a box of its
\* own, or a pointer value_at_index gave it.
typed_value_destroy ==
    /\ fatal = "none"
    /\ \/ /\ last' = Call("typed_value_destroy", NULL, 0, Ret("void", 0))
          /\ UNCHANGED <<heap, aliases, fatal>>
       \/ \E p \in TVPointers :
            \E o \in FromRawOutcomes(p) :
              /\ heap' = AfterFromRaw(heap, p, o)
              /\ fatal' = IF o = "abort" THEN "abort" ELSE fatal
              /\ aliases' = WithoutAliasesOf(p.a)
              /\ last' = Call("typed_value_destroy", p.a, p.i, Ret("void", 0))
    /\ UNCHANGED <<limit, pending, cb>>

query_builder_destroy == define_destructor("query_builder_destroy", "QueryBuilder")

tx_report_destroy == define_destructor("tx_report_destroy", "TxReport")

typed_value_list_destroy == define_destructor("typed_value_list_destroy", "Row")

typed_value_list_iter_destroy == define_destructor("typed_value_list_iter_destroy", "ValIter")

typed_value_result_set_destroy == define_destructor("typed_value_result_set_destroy", "RowSet")

typed_value_result_set_iter_destroy == define_destructor("typed_value_result_set_iter_destroy", "RowIter")

\* The kinds of box whose address the caller was given as its own.
OwnedKinds ==
    {"Store", "QueryBuilder", "ExternResult", "CString", "TxReport", "Entid", "SyncOutcome",
     "TypedValue", "Row", "RowSet", "ValIter", "RowIter", "TransactionChange"}

\* destroy(obj: *mut c_void): if !obj.is_null() { let _ = Box::from_raw(obj); }
\* The box is a Box<c_void>: it is released without the value's drop glue.
destroy ==
    /\ fatal = "none"
    /\ \/ /\ last' = Call("destroy", NULL, 0, Ret("void", 0))
          /\ UNCHANGED <<heap, aliases, fatal, limit, pending, cb>>
       \/ \E a \in Addr :
            /\ heap[a].st = "live"
            /\ heap[a].kind \in OwnedKinds
            /\ heap' = DropRaw(heap, a)
            /\ aliases' = WithoutAliasesOf(a)
            /\ last' = Call("destroy", a, 0, Ret("void", 0))
            /\ UNCHANGED <<fatal, limit, pending, cb>>

\* --------------------------------------------------------- specifications
ValueNext ==
    \/ store_open
    \/ store_value_for_attribute
    \/ typed_value_as_long
    \/ typed_value_as_entid
    \/ typed_value_as_kw
    \/ typed_value_as_boolean
    \/ typed_value_as_double
    \/ typed_value_as_timestamp
    \/ typed_value_as_string
    \/ typed_value_as_uuid
    \/ typed_value_value_type
    \/ typed_value_destroy
    \/ store_destroy
    \/ destroy

\* The caller works with single value envelopes.
SpecValue == InitWith(MaxAddr) /\ [][ValueNext]_vars

TypedValueAsAny ==
    \/ typed_value_as_long
    \/ typed_value_as_entid
    \/ typed_value_as_kw
    \/ typed_value_as_boolean
    \/ typed_value_as_double
    \/ typed_value_as_timestamp
    \/ typed_value_as_string
    \/ typed_value_as_uuid

ValuesIterNextAsAny ==
    \/ values_iter_next_as_long
    \/ values_iter_next_as_entid
    \/ values_iter_next_as_kw
    \/ values_iter_next_as_boolean
    \/ values_iter_next_as_double
    \/ values_iter_next_as_timestamp
    \/ values_iter_next_as_string
    \/ values_iter_next_as_uuid

ValueAtIndexAsAny ==
    \/ value_at_index_as_long
    \/ value_at_index_as_entid
    \/ value_at_index_as_kw
    \/ value_at_index_as_boolean
    \/ value_at_index_as_double
    \/ value_at_index_as_timestamp
    \/ value_at_index_as_string
    \/ value_at_index_as_uuid

IterNext_ ==
    \/ store_open
    \/ store_query
    \/ query_builder_execute_coll
    \/ query_builder_execute
    \/ rows_iter
    \/ rows_iter_next
    \/ values_iter
    \/ values_iter_next
    \/ ValuesIterNextAsAny
    \/ typed_value_list_destroy
    \/ typed_value_list_iter_destroy
    \/ typed_value_result_set_destroy
    \/ typed_value_result_set_iter_destroy

\* The caller turns rows and row sets into iterators and walks them.
SpecIter == InitWith(MaxAddr + 2) /\ [][IterNext_]_vars

IndexedNext ==
    \/ store_open
    \/ store_query
    \/ query_builder_execute
    \/ row_at_index
    \/ value_at_index
    \/ ValueAtIndexAsAny
    \/ store_register_observer
    \/ store_set_long_for_attribute_on_entid
    \/ observer_notify
    \/ tx_change_list_entry_at
    \/ changelist_entry_at
    \/ observer_return

\* The caller reads collections and change lists by index.
SpecIndexed == InitWith(MaxAddr + 1) /\ [][IndexedNext]_vars

TypedNext ==
    \/ store_open
    \/ store_query
    \/ query_builder_execute_scalar
    \/ query_builder_execute_coll
    \/ values_iter
    \/ TypedValueAsAny
    \/ ValuesIterNextAsAny
    \/ ValueAtIndexAsAny

\* The caller extracts typed values in each of the three ways.
SpecTyped == InitWith(MaxAddr + 2) /\ [][TypedNext]_vars

ResultNext ==
    \/ store_open
    \/ store_query
    \/ store_transact
    \/ query_builder_execute_scalar
    \/ query_builder_execute_coll
    \/ query_builder_execute_tuple
    \/ query_builder_execute
    \/ store_value_for_attribute
    \/ store_sync
    \/ store_set_long_for_attribute_on_entid
    \/ store_set_entid_for_attribute_on_entid
    \/ store_set_kw_ref_for_attribute_on_entid
    \/ store_set_boolean_for_attribute_on_entid
    \/ store_set_double_for_attribute_on_entid
    \/ store_set_timestamp_for_attribute_on_entid
    \/ store_set_string_for_attribute_on_entid
    \/ store_set_uuid_for_attribute_on_entid

\* The caller runs the operations that answer with a result envelope.
SpecResult == InitWith(MaxAddr) /\ [][ResultNext]_vars

ObsNext ==
    \/ store_open
    \/ store_register_observer
    \/ store_unregister_observer
    \/ store_set_long_for_attribute_on_entid
    \/ observer_notify
    \/ observer_return

\* The caller registers observers under two keys and commits a write.
SpecObs == InitFor(MaxAddr - 1, 2) /\ [][ObsNext]_vars

\* The Engine delivers every queued notification, and a callback returns.
SpecObsLive == SpecObs /\ WF_vars(observer_notify) /\ WF_vars(observer_return)

BorrowNext ==
    \/ store_open
    \/ store_query
    \/ query_builder_execute_tuple
    \/ value_at_index
    \/ typed_value_value_type
    \/ TypedValueAsAny
    \/ typed_value_destroy
    \/ typed_value_list_destroy

\* The caller treats what value_at_index returns as a value envelope.
SpecBorrow == InitWith(MaxAddr + 1) /\ [][BorrowNext]_vars

DestroyNext ==
    \/ store_open
    \/ store_query
    \/ store_transact
    \/ store_value_for_attribute
    \/ destroy
    \/ query_builder_destroy
    \/ store_destroy
    \/ tx_report_destroy
    \/ typed_value_destroy
    \/ typed_value_list_destroy
    \/ typed_value_list_iter_destroy
    \/ typed_value_result_set_destroy
    \/ typed_value_result_set_iter_destroy

SpecDestroy == InitWith(MaxAddr - 1) /\ [][DestroyNext]_vars

ReportNext ==
    \/ store_open
    \/ store_transact
    \/ tx_report_get_entid
    \/ tx_report_get_tx_instant
    \/ tx_report_entity_for_temp_id
    \/ tx_report_destroy
    \/ destroy

\* The caller transacts and reads the reports.
SpecReport == InitWith(MaxAddr) /\ [][ReportNext]_vars

DeliveryNext ==
    \/ store_open
    \/ store_register_observer
    \/ store_set_long_for_attribute_on_entid
    \/ observer_notify
    \/ tx_change_list_entry_at
    \/ changelist_entry_at
    \/ observer_return

\* One observer is notified of two commits and reads the lists it is handed.
SpecDelivery == InitFor(MaxAddr + 1, 1) /\ [][DeliveryNext]_vars

KwRefNext ==
    \/ store_open
    \/ store_register_observer
    \/ store_set_kw_ref_for_attribute_on_entid
    \/ observer_notify
    \/ observer_return

\* An observer watches the store while keyword references are written.
SpecKwRef == InitFor(MaxAddr + 1, 1) /\ [][KwRefNext]_vars

ExecuteNext ==
    \/ store_open
    \/ store_query
    \/ query_builder_bind_long
    \/ query_builder_bind_string
    \/ query_builder_execute_scalar
    \/ query_builder_execute_coll
    \/ query_builder_execute_tuple
    \/ query_builder_execute

\* One builder is bound and executed, more than once when an answer is empty.
SpecExecute == InitOf(MaxAddr + 1, 1, 1) /\ [][ExecuteNext]_vars

BindNext ==
    \/ store_open
    \/ store_query
    \/ query_builder_bind_long
    \/ query_builder_bind_ref
    \/ query_builder_bind_ref_kw
    \/ query_builder_bind_kw
    \/ query_builder_bind_boolean
    \/ query_builder_bind_double
    \/ query_builder_bind_timestamp
    \/ query_builder_bind_string
    \/ query_builder_bind_uuid
    \/ query_builder_execute_scalar
    \/ TypedValueAsAny

\* One builder is bound, executed as a scalar, and the answer is extracted.
SpecBind == InitOf(MaxAddr + 1, 1, 1) /\ [][BindNext]_vars

AccessNext ==
    \/ store_open
    \/ store_query
    \/ query_builder_execute_coll
    \/ values_iter
    \/ ValuesIterNextAsAny

\* The caller walks one row with the typed iterator accessors.
SpecAccess == InitOf(MaxAddr + 1, 1, 1) /\ [][AccessNext]_vars

BatchNext ==
    \/ store_open
    \/ store_register_observer
    \/ commit_batch
    \/ observer_notify
    \/ observer_return

\* One observer is notified of commits of one or more transactions.
SpecBatch == InitFor(1, 1) /\ [][BatchNext]_vars

KeyNext ==
    \/ store_open
    \/ store_register_observer
    \/ store_set_long_for_attribute_on_entid
    \/ observer_notify
    \/ destroy
    \/ observer_return

\* An observer is notified of up to two commits; the caller may destroy what
\* it holds, the key string it was handed included.
SpecKey == InitFor(MaxAddr + 1, 1) /\ [][KeyNext]_vars

Next == ValueNext \/ IterNext_ \/ IndexedNext \/ TypedNext \/ ResultNext \/ ObsNext \/ BorrowNext \/ DestroyNext \/ ReportNext \/ DeliveryNext \/ KwRefNext \/ ExecuteNext \/ BindNext \/ AccessNext \/ BatchNext \/ KeyNext

Spec == Init /\ [][Next]_vars
\* ------------------------------------------------------------ properties
Envelopes == {a \in Addr : heap[a].kind = "ExternResult"}

OptionOps == {"query_builder_execute_scalar", "query_builder_execute_tuple",
              "store_value_for_attribute"}

\* C1: a result envelope never has both slots non-null; its error slot is
\* non-null exactly when the operation failed (and then holds the message),
\* its success slot is non-null exactly when the operation succeeded with a
\* payload (and then holds the payload); both slots are null only for the
\* scalar query, the tuple query and the attribute lookup, when they
\* succeeded with no value.
C1_EnvelopeSlots ==
    \A a \in Envelopes :
      LET env == heap[a].val
      IN  /\ ~(env.ok # NULL /\ env.err # NULL)
          /\ (env.err # NULL) <=> (env.res = "err")
          /\ (env.ok # NULL) <=> (env.res = "ok")
          /\ env.err # NULL => heap[env.err].kind = "CString" /\ env.err < a
          /\ env.ok # NULL => heap[env.ok].kind \notin {"none", "CString", "ExternResult"} /\ env.ok < a
          /\ (env.ok = NULL /\ env.err = NULL) => env.op \in OptionOps

\* An attribute lookup found no value and another operation failed.
C1_Witness ==
    /\ \E a \in Envelopes : heap[a].val.res = "none" /\ heap[a].val.ok = NULL /\ heap[a].val.err = NULL
    /\ \E a \in Envelopes : heap[a].val.res = "err" /\ heap[a].val.err # NULL

ConsumingOps ==
    {"typed_value_as_long", "typed_value_as_entid", "typed_value_as_kw", "typed_value_as_boolean",
     "typed_value_as_double", "typed_value_as_timestamp", "typed_value_as_string",
     "typed_value_as_uuid"}

\* The handle is no allocation the caller can use: it was released, or the
\* process is gone.
Released(a) == ~Live(a) /\ (fatal # "abort" => heap[a].st = "freed")

\* C2: after a consuming-single accessor was called on a value envelope the
\* caller owned, whether the coercion succeeded or failed, the handle is no
\* longer a live allocation and no accessor or destructor accepts it.
C2_ConsumesHandle ==
    (last.op \in ConsumingOps /\ last.idx = 0) =>
        /\ Released(last.arg)
        /\ fatal # "abort" => last.arg \notin {p.a : p \in TVPointers}

\* A coercion failed and the stack unwound: the envelope is released all the same.
C2_Witness ==
    /\ last.op \in ConsumingOps
    /\ last.idx = 0
    /\ last.ret.k = "none"
    /\ fatal = "unwind"
    /\ heap[last.arg].st = "freed"

\* C3: once the caller has destroyed every handle it was given (nothing is
\* live any more), no allocation of the boundary is outstanding: every box
\* and everything it owned has been released, exactly once.
C3_NothingOutstanding ==
    (fatal = "none" /\ cb = NoCallback /\ \A a \in Addr : heap[a].st # "live") =>
        \A a \in Addr : heap[a].st \in {"unalloc", "freed"}

\* C4: what an indexed accessor returned is the caller's own copy: after a
\* destructor or a consuming accessor was called on it, the collection it was
\* read from is still live, with the same elements.
C4_SourceIntact ==
    (last.op \in ConsumingOps \cup {"typed_value_destroy"} /\ last.idx > 0) =>
        /\ IsLive(last.arg, "Row")
        /\ fatal # "abort"

IterKinds == {"RowIter", "ValIter"}

IterDestructors == {"typed_value_list_iter_destroy", "typed_value_result_set_iter_destroy"}

\* C5: rows_iter and values_iter consume the collection handle: after the
\* conversion the collection is no live allocation and no pointer into it is
\* usable, the iterator returned is live and holds exactly the elements the
\* collection held; and the iterator's destructor releases the iterator with
\* all it still holds.
C5_IterConsumesCollection ==
    /\ last.op \in {"rows_iter", "values_iter"} =>
          /\ Released(last.arg)
          /\ \A al \in aliases : al[1] # last.arg
          /\ IsLive(last.ret.v, IF last.op = "rows_iter" THEN "RowIter" ELSE "ValIter")
          /\ heap[last.ret.v].val.rest = heap[last.arg].val
          /\ heap[last.ret.v].val.cap = Len(heap[last.arg].val)
    /\ (last.op \in IterDestructors /\ last.arg # NULL) => heap[last.arg].st = "freed"

\* A non-empty row set was turned into an iterator.
C5_Witness ==
    /\ last.op = "rows_iter"
    /\ heap[last.arg].kind = "RowSet"
    /\ heap[last.arg].st = "freed"
    /\ IsLive(last.ret.v, "RowIter")
    /\ heap[last.ret.v].val.cap > 0

NextOps ==
    {"rows_iter_next", "values_iter_next", "values_iter_next_as_long", "values_iter_next_as_entid",
     "values_iter_next_as_kw", "values_iter_next_as_boolean", "values_iter_next_as_double",
     "values_iter_next_as_timestamp", "values_iter_next_as_string", "values_iter_next_as_uuid"}

Exhausted(it) == heap[it].kind \in IterKinds /\ heap[it].st = "live" /\ heap[it].val.rest = <<>>

\* C6: a next call on an exhausted iterator returns null, does not fail and
\* changes nothing; an exhausted iterator stays exhausted for as long as it is
\* live, and the only thing that ends it is its destruction.
C6_ExhaustedStaysNull ==
    [][\A it \in Addr :
         Exhausted(it) =>
           /\ (last'.op \in NextOps /\ last'.arg = it) =>
                 /\ last'.ret = Ret("null", 0)
                 /\ fatal' = "none"
                 /\ heap' = heap
           /\ heap'[it] # heap[it] =>
                 /\ last'.op \in IterDestructors
                 /\ last'.arg = it
                 /\ heap'[it].st = "freed"]_vars

\* An iterator that had elements has given them all and answered null.
C6_Witness ==
    /\ last.op \in NextOps
    /\ last.ret = Ret("null", 0)
    /\ Exhausted(last.arg)
    /\ heap[last.arg].val.cap > 0
    /\ fatal = "none"

AtIndexAsOps ==
    {"value_at_index_as_long", "value_at_index_as_entid", "value_at_index_as_kw",
     "value_at_index_as_boolean", "value_at_index_as_double", "value_at_index_as_timestamp",
     "value_at_index_as_string", "value_at_index_as_uuid"}

IndexedOps ==
    {"row_at_index", "value_at_index", "tx_change_list_entry_at", "changelist_entry_at"}
      \cup AtIndexAsOps

\* The number of elements of the collection at a.
LengthOf(a) ==
    CASE heap[a].kind = "TxChangeList" -> Len(heap[a].val.reports)
      [] heap[a].kind = "TransactionChange" -> Len(heap[a].val.changes)
      [] OTHER -> Len(heap[a].val)

\* The latest call was an indexed access with an index out of range.
OutOfRange == last.op \in IndexedOps /\ (last.idx < 0 \/ last.idx >= LengthOf(last.arg))

FailedFatally == fatal \in PanicOutcomes /\ last.ret = Ret("none", 0)

\* C7 as stated: every indexed accessor fails fatally on an index out of
\* range and returns neither a value nor null.
C7_AllFailFatally == OutOfRange => FailedFatally

\* C7: on an index out of range (negative, or not below the length)
\* value_at_index, every value_at_index_as_T, tx_change_list_entry_at and
\* changelist_entry_at fail fatally and return nothing; row_at_index does
\* not fail and returns null.
C7_FailFatallyOrNullRow ==
    OutOfRange =>
        IF last.op = "row_at_index"
        THEN fatal = "none" /\ last.ret = Ret("null", 0)
        ELSE FailedFatally

\* A change entry was read past the end of its changes.
C7_Witness ==
    /\ OutOfRange
    /\ last.op = "changelist_entry_at"
    /\ fatal = "unwind"

\* The tag each typed extraction asks for.
ExtractTag ==
    [op \in ConsumingOps \cup AtIndexAsOps \cup (NextOps \ {"rows_iter_next", "values_iter_next"}) |->
       CASE op \in {"typed_value_as_long", "value_at_index_as_long", "values_iter_next_as_long"} -> "Long"
         [] op \in {"typed_value_as_entid", "value_at_index_as_entid", "values_iter_next_as_entid"} -> "Ref"
         [] op \in {"typed_value_as_kw", "value_at_index_as_kw", "values_iter_next_as_kw"} -> "Keyword"
         [] op \in {"typed_value_as_boolean", "value_at_index_as_boolean", "values_iter_next_as_boolean"} -> "Boolean"
         [] op \in {"typed_value_as_double", "value_at_index_as_double", "values_iter_next_as_double"} -> "Double"
         [] op \in {"typed_value_as_timestamp", "value_at_index_as_timestamp", "values_iter_next_as_timestamp"} -> "Instant"
         [] op \in {"typed_value_as_string", "value_at_index_as_string", "values_iter_next_as_string"} -> "String"
         [] OTHER -> "Uuid"]

\* The value envelope a typed extraction op(a, i) reads in the current state,
\* if there is one: the envelope itself, the element at the index, or the
\* next element of the iterator.
Extracted(op, a, i) ==
    IF a \notin Addr \/ heap[a].st # "live" THEN {}
    ELSE IF op \in ConsumingOps
    THEN (IF heap[a].kind = "TypedValue" THEN {heap[a].val} ELSE {})
    ELSE IF op \in AtIndexAsOps
    THEN (IF heap[a].kind = "Row" /\ i \in 0..(Len(heap[a].val) - 1) THEN {heap[a].val[i + 1]} ELSE {})
    ELSE (IF heap[a].kind = "ValIter" /\ heap[a].val.rest # <<>> THEN {Head(heap[a].val.rest)} ELSE {})

ByValueOps == {"typed_value_as_long", "typed_value_as_boolean", "typed_value_as_double"}

\* C9 as stated: after typed_value_as_long, typed_value_as_boolean or
\* typed_value_as_double returned the scalar, the handle is still a live
\* allocation.
C9_HandleStillLive ==
    (last.op \in ByValueOps /\ last.idx = 0 /\ last.ret.k = "int") => IsLive(last.arg, "TypedValue")

\* C9: typed_value_as_long, typed_value_as_boolean and typed_value_as_double
\* return the scalar of an envelope of their tag and consume the handle: the
\* envelope is released by the call, the caller can neither read it again
\* nor destroy it.
C9_ByValueConsumes ==
    (last.op \in ByValueOps /\ last.idx = 0 /\ last.ret.k = "int") =>
        /\ fatal = "none"
        /\ heap[last.arg].kind = "TypedValue"
        /\ heap[last.arg].st = "freed"
        /\ heap[last.arg].val = [tag |-> ExtractTag[last.op], v |-> last.ret.v]
        /\ \A p \in TVPointers : p.a # last.arg

\* A Long was read out of an envelope, and the envelope is gone.
C9_Witness ==
    /\ last.op = "typed_value_as_long"
    /\ last.idx = 0
    /\ last.ret.k = "int"
    /\ heap[last.arg].st = "freed"

\* C10: a call of value_at_index_as_T that returns (live row, index in range,
\* element of tag T) returns the value of the element at that index, as a
\* number or as a new string, and leaves the row as it was: same elements,
\* same length, still live.  The result is a function of the row and the
\* index alone, and the row does not change, so repeated calls return equal
\* values.
C10_IndexedReadIdempotent ==
    [][(last'.op \in AtIndexAsOps /\ last'.ret.k # "none") =>
         LET a == last'.arg
             x == heap[a].val[last'.idx + 1]
         IN  /\ IsLive(a, "Row")
             /\ last'.idx \in 0..(Len(heap[a].val) - 1)
             /\ x.tag = ExtractTag[last'.op]
             /\ heap'[a] = heap[a]
             /\ fatal' = "none"
             /\ IF last'.ret.k = "int"
                THEN last'.ret.v = x.v /\ heap' = heap
                ELSE /\ heap[last'.ret.v].st = "unalloc"
                     /\ heap'[last'.ret.v].st = "live"
                     /\ heap'[last'.ret.v].kind = "CString"
                     /\ heap'[last'.ret.v].val.v = x.v
                     /\ \A b \in Addr \ {last'.ret.v} : heap'[b] = heap[b]]_vars

\* An element was read as a string: the string is a new allocation with the
\* element's value, the row is live and still holds the element.
C10_Witness ==
    /\ last.op = "value_at_index_as_string"
    /\ last.ret.k = "handle"
    /\ IsLive(last.arg, "Row")
    /\ IsLive(last.ret.v, "CString")
    /\ heap[last.arg].val[last.idx + 1] = [tag |-> "String", v |-> heap[last.ret.v].val.v]

Destructors ==
    {"destroy", "query_builder_destroy", "store_destroy", "tx_report_destroy", "typed_value_destroy",
     "typed_value_list_destroy", "typed_value_list_iter_destroy", "typed_value_result_set_destroy",
     "typed_value_result_set_iter_destroy"}

\* C11: a destructor called with a null pointer does nothing: it does not
\* fail, and the heap (every box, live or not), the pointers the caller
\* holds, the queued notifications and the running callback are what they
\* were before the call.
C11_NullDestroyNoOp ==
    [][(last'.op \in Destructors /\ last'.arg = NULL) =>
         /\ fatal' = "none"
         /\ heap' = heap
         /\ aliases' = aliases
         /\ pending' = pending
         /\ cb' = cb
         /\ last'.ret = Ret("void", 0)]_vars

\* An iterator destructor was called with null while an iterator is live.
C11_Witness ==
    /\ last.op = "typed_value_destroy"
    /\ last.arg = NULL
    /\ fatal = "none"
    /\ \E a \in Addr : IsLive(a, "TypedValue")


\* C12: tx_report_entity_for_temp_id returns a non-null handle to the mapped
\* entity id when the key is in the report's temporary-id map and null when
\* it is not; the report is neither consumed nor changed, so a repeated
\* lookup of the same key gives the same result.
C12_TempIdLookup ==
    [][last'.op = "tx_report_entity_for_temp_id" =>
         LET r == last'.arg
             key == LookupKeys[last'.idx]
             tempids == heap[r].val.tempids
         IN  /\ fatal' = "none"
             /\ IsLive(r, "TxReport")
             /\ heap'[r] = heap[r]
             /\ IF key \in DOMAIN tempids
                THEN /\ last'.ret.k = "handle"
                     /\ last'.ret.v # NULL
                     /\ heap[last'.ret.v].st = "unalloc"
                     /\ heap'[last'.ret.v] = Obj("Entid", tempids[key])
                ELSE /\ last'.ret = Ret("null", 0)
                     /\ heap' = heap]_vars

C12_Witness ==
    /\ last.op = "tx_report_entity_for_temp_id"
    /\ last.ret.k = "handle"
    /\ heap[last.ret.v].val = 1
    /\ IsLive(last.arg, "TxReport")
    /\ heap[last.arg].val.tempids = [k \in {"t1"} |-> 1]

\* The functions that commit a transaction when the Engine accepts it.
CommitOps ==
    {"store_transact", "store_set_long_for_attribute_on_entid", "store_set_entid_for_attribute_on_entid",
     "store_set_kw_ref_for_attribute_on_entid", "store_set_boolean_for_attribute_on_entid",
     "store_set_double_for_attribute_on_entid", "store_set_timestamp_for_attribute_on_entid",
     "store_set_string_for_attribute_on_entid", "store_set_uuid_for_attribute_on_entid"}

\* The step is a call that committed a transaction.
IsCommit ==
    /\ last'.op \in CommitOps
    /\ last' # last
    /\ last'.ret.k = "handle"
    /\ heap'[last'.ret.v].val.res = "ok"

\* Attribute a is among the attributes the committed transaction changed.
Touched(a) == (last'.idx \div (2 ^ (a - 1))) % 2 = 1

\* The transaction ids in the change list at address l.
TxIdsOf(h, l) == {h[l].val.reports[i].txid : i \in 1..Len(h[l].val.reports)}

\* The transaction ids of a queued notification.
TxIdsIn(n) == {n.batch[i].tx_id : i \in 1..Len(n.batch)}

\* C13 (commit): a committed transaction queues no notification for an
\* observer none of whose attributes it changed, and exactly one, for this
\* transaction and with the observer's callback, for an observer one of
\* whose attributes it changed.
C13_CommitQueues ==
    IsCommit =>
      LET s == last'.arg
          tx == heap[s].val.next_tx
          queued == pending' \ pending
      IN  /\ pending \subseteq pending'
          /\ \A n \in pending : tx \notin TxIdsIn(n)
          /\ \A n \in queued : \E o \in heap[s].val.observers : o.key = n.key
          /\ \A o \in heap[s].val.observers :
               LET mine == {n \in queued : n.key = o.key}
               IN  IF \E a \in o.attrs : Touched(a)
                   THEN /\ Cardinality(mine) = 1
                        /\ \A n \in mine : n.callback = o.callback /\ tx \in TxIdsIn(n)
                   ELSE mine = {}

\* C13 (delivery): a queued notification leaves the queue only by one
\* invocation of its callback, which is handed the notification's key and a
\* change list holding the transaction's id; nothing else enters the queue.
C13_DeliveredOnce ==
    /\ pending' # pending /\ ~IsCommit =>
          /\ last'.op = "callback"
          /\ \E n \in pending :
               /\ pending' = pending \ {n}
               /\ cb = NoCallback
               /\ cb'.callback = n.callback
               /\ heap'[cb'.key].val = CStr(n.key, 0)
               /\ heap'[cb'.list].st = "live"
               /\ heap'[cb'.list].kind = "TxChangeList"
               /\ TxIdsOf(heap', cb'.list) = TxIdsIn(n)
               /\ TxIdsIn(n) # {}
    /\ last'.op = "callback" /\ last' # last => pending' # pending

\* C13: for an observer registered with attribute set S, a committed
\* transaction that changes no attribute of S never invokes its callback, and
\* one that changes an attribute of S invokes it exactly once for that commit,
\* with a Transaction Change List that contains the transaction's id.
C13_NotifiedOncePerCommit ==
    /\ [][C13_CommitQueues /\ C13_DeliveredOnce]_vars
    /\ \A k \in {"k1", "k2"}, c \in {"f", "g"} :
         (\E n \in pending : n.key = k /\ n.callback = c)
           ~> (cb.callback = c /\ cb.key # NULL /\ heap[cb.key].val = CStr(k, 0))

C13_Witness ==
    /\ last.op = "callback"
    /\ cb.callback = "g"
    /\ heap[cb.key].val = CStr("k2", 0)
    /\ TxIdsOf(heap, cb.list) = {1}
    /\ pending = {}
    /\ \E s \in Addr :
         /\ IsLive(s, "Store")
         /\ [key |-> "k1", attrs |-> {1}, callback |-> "f"] \in heap[s].val.observers
         /\ [key |-> "k2", attrs |-> {2}, callback |-> "g"] \in heap[s].val.observers
         /\ \E r \in Addr : IsLive(r, "TxReport")

\* The observers registered with the store at address s.
ObserversOf(h, s) == h[s].val.observers

Stores == {s \in Addr : heap[s].kind = "Store"}

\* A commit queues notifications only for the observers registered when it
\* is made, each with the callback and for the attributes of its registration.
QueuedForRegistered ==
    IsCommit =>
      \A n \in pending' \ pending :
        \E o \in ObserversOf(heap, last'.arg) :
          /\ o.key = n.key
          /\ o.callback = n.callback
          /\ \E a \in o.attrs : Touched(a)

\* C14 (registration): the call leaves exactly the given subscription under
\* its key and the subscriptions of the other keys as they were.
C14_RegisterReplaces ==
    last'.op = "store_register_observer" /\ last' # last =>
      LET s == last'.arg
          given == last'.input
      IN  /\ {o \in ObserversOf(heap', s) : o.key = given.key} = {given}
          /\ {o \in ObserversOf(heap', s) : o.key # given.key}
               = {o \in ObserversOf(heap, s) : o.key # given.key}

\* Subscriptions change by store_register_observer and
\* store_unregister_observer only.
OnlyByRegistration ==
    \A s \in Stores :
      ObserversOf(heap', s) # ObserversOf(heap, s) =>
        last'.op \in {"store_register_observer", "store_unregister_observer"} /\ last'.arg = s

\* C14: registering under a key that has a subscription replaces it: there is
\* at most one subscription per key, the one of the key's latest registration,
\* and a commit uses the callback and attribute set of no other.
C14_LatestRegistrationOnly ==
    /\ [](\A s \in Stores : \A o1, o2 \in ObserversOf(heap, s) : o1.key = o2.key => o1 = o2)
    /\ [][C14_RegisterReplaces /\ OnlyByRegistration /\ QueuedForRegistered]_vars

C14_Witness ==
    /\ last.op = "store_register_observer"
    /\ last.input = [key |-> "k1", attrs |-> {2}, callback |-> "g"]
    /\ ObserversOf(heap, last.arg) = {last.input}
    /\ \E n \in pending : n.key = "k1" /\ n.callback = "f"

\* C15 (the call): store_unregister_observer returns normally, removes the
\* subscription of the given key, if there is one, and changes nothing else.
C15_UnregisterRemovesKey ==
    last'.op = "store_unregister_observer" /\ last' # last =>
      LET s == last'.arg
          key == last'.input
      IN  /\ fatal' = "none"
          /\ last'.ret = Ret("void", 0)
          /\ ObserversOf(heap', s) = {o \in ObserversOf(heap, s) : o.key # key}
          /\ \A a \in Addr \ {s} : heap'[a] = heap[a]
          /\ heap'[s] = [heap[s] EXCEPT !.val.observers = ObserversOf(heap', s)]
          /\ (\A o \in ObserversOf(heap, s) : o.key # key) => heap' = heap
          /\ pending' = pending /\ cb' = cb /\ aliases' = aliases

\* Every subscription a store holds when a transaction that changes one of
\* its attributes is committed gets a notification, and no key without a
\* subscription gets one.
C15_SubscribedAreNotified ==
    IsCommit =>
      /\ \A o \in ObserversOf(heap, last'.arg) :
           (\E a \in o.attrs : Touched(a)) =>
             \E n \in pending' \ pending : n.key = o.key /\ n.callback = o.callback
      /\ \A n \in pending' \ pending : \E o \in ObserversOf(heap, last'.arg) : o.key = n.key

\* C15: store_unregister_observer removes exactly the subscription of the
\* given key and is a silent no-op for a key without one; the other keys keep
\* their subscriptions and their notifications, and the removed key is not
\* notified of any later commit.
C15_UnregisterExactlyKey ==
    [][C15_UnregisterRemovesKey /\ C15_SubscribedAreNotified /\ OnlyByRegistration]_vars

C15_Witness ==
    /\ last.op = "store_unregister_observer"
    /\ last.input = "k1"
    /\ \E n \in pending : n.key = "k1"
    /\ \E n \in pending : n.key = "k2"
    /\ ObserversOf(heap, last.arg) = {[key |-> "k2", attrs |-> {1}, callback |-> "f"]}

\* The change lists that are allocated and not released.
LiveLists == {a \in Addr : IsLive(a, "TxChangeList")}

\* C16 (steps): the list handed to a callback is a box that did not exist
\* before the delivery, and the return of the callback releases it.
C16_FreshThenReleased ==
    /\ last'.op = "callback" /\ last' # last =>
         /\ heap[cb'.list].st = "unalloc"
         /\ heap'[cb'.list].st = "live"
         /\ heap'[cb'.list].kind = "TxChangeList"
    /\ last'.op = "callback_return" /\ last' # last =>
         /\ cb' = NoCallback
         /\ heap[last'.arg].st = "live"
         /\ heap'[last'.arg].st = "freed"
    /\ \A a \in Addr : heap[a].kind = "TxChangeList" /\ heap[a].st = "freed" => heap'[a] = heap[a]

C17_UnknownKeywordReported ==
    [][(last'.op = "store_set_kw_ref_for_attribute_on_entid" /\ last' # last /\ last'.input = None) =>
         LET s == last'.arg
             env == heap'[last'.ret.v]
         IN  /\ fatal' = "none"
             /\ last'.ret.k = "handle"
             /\ env.kind = "ExternResult" /\ env.st = "live"
             /\ env.val.ok = NULL
             /\ env.val.err # NULL
             /\ heap'[env.val.err] = Obj("CString", CStr("Unknown attribute", 0))
             /\ heap'[s] = heap[s]
             /\ \A a \in Addr : heap[a].st # "unalloc" => heap'[a] = heap[a]
             /\ \A a \in Addr : heap'[a].kind # "TxReport" \/ heap[a].kind = "TxReport"
             /\ pending' = pending
             /\ cb' = cb]_vars

C17_Witness ==
    /\ last.op = "store_set_kw_ref_for_attribute_on_entid"
    /\ last.input = None
    /\ fatal = "none"
    /\ pending = {}
    /\ heap[last.arg].val.next_tx = 2
    /\ heap[last.arg].val.observers = {[key |-> "k1", attrs |-> {1, 2}, callback |-> "f"]}

ExecuteOps ==
    {"query_builder_execute_scalar", "query_builder_execute_tuple", "query_builder_execute_coll",
     "query_builder_execute"}

\* C18: executing a Query Builder in any of the four shapes neither consumes
\* it nor resets its bindings: after the call the builder is a live handle
\* holding the bindings it held before, so a second execute runs with them.
C18_ExecuteKeepsBuilder ==
    [][(last'.op \in ExecuteOps /\ last' # last) =>
         LET q == last'.arg
         IN  /\ fatal' = "none"
             /\ IsLive(q, "QueryBuilder")
             /\ heap'[q] = heap[q]
             /\ heap'[q].st = "live"
             /\ heap'[q].val.values = heap[q].val.values]_vars

\* A bound builder was executed twice: after a first execute the second
\* answers with the bound value.
C18_Witness ==
    /\ last.op = "query_builder_execute_tuple"
    /\ last.idx = 1
    /\ IsLive(last.arg, "QueryBuilder")
    /\ heap[last.arg].val.values[Var] = [tag |-> "Long", v |-> -1]
    /\ \E e \in Addr :
         /\ heap[e].kind = "ExternResult"
         /\ heap[e].val.op = "query_builder_execute_scalar"
         /\ e < last.ret.v

\* The tag of the value each bind function binds.
BindTag ==
    [op \in {"query_builder_bind_long", "query_builder_bind_ref", "query_builder_bind_kw",
             "query_builder_bind_boolean", "query_builder_bind_double", "query_builder_bind_timestamp",
             "query_builder_bind_string", "query_builder_bind_uuid"} |->
       CASE op = "query_builder_bind_long" -> "Long"
         [] op = "query_builder_bind_ref" -> "Ref"
         [] op = "query_builder_bind_kw" -> "Keyword"
         [] op = "query_builder_bind_boolean" -> "Boolean"
         [] op = "query_builder_bind_double" -> "Double"
         [] op = "query_builder_bind_timestamp" -> "Instant"
         [] op = "query_builder_bind_string" -> "String"
         [] OTHER -> "Uuid"]

\* What the accessor of a value's own type gives for the value: the number,
\* or a string in the form of the type.
ReadOut(tv) ==
    CASE tv.tag = "Keyword" -> CStr("kw", tv.v)
      [] tv.tag = "String" -> CStr("str", tv.v)
      [] tv.tag = "Uuid" -> CStr("uuid", tv.v)
      [] OTHER -> tv.v

\* The value the caller gave a bind function, as the accessor's result type
\* has it: a bool reads as 1 or 0.
AsRead(op, input) ==
    IF op = "query_builder_bind_boolean" THEN (IF input THEN 1 ELSE 0) ELSE input

\* C19 (bind): the variable is bound to a value of the tag of T which the
\* accessor of T reads as the value given.
C19_BindKeepsValue ==
    (last'.op \in DOMAIN BindTag /\ last' # last /\ last'.ret.k = "void") =>
      LET bound == heap'[last'.arg].val.values[Var]
      IN  /\ bound.tag = BindTag[last'.op]
          /\ ReadOut(bound) = AsRead(last'.op, last'.input)

\* C19 (query): a query that projects the variable answers with a Value
\* Envelope holding the value the variable is bound to.
C19_ProjectionIsBound ==
    (last'.op = "query_builder_execute_scalar" /\ last'.idx = 1 /\ last' # last) =>
      LET env == heap'[last'.ret.v].val
      IN  /\ env.ok # NULL /\ env.err = NULL
          /\ heap'[env.ok] = Obj("TypedValue", heap[last'.arg].val.values[Var])

\* C19 (extraction): the accessor of T, on an envelope of the tag of T,
\* returns what the envelope holds.
C19_AccessorReads ==
    (last'.op \in ConsumingOps /\ last' # last /\ last'.idx = 0 /\ last'.ret.k # "none") =>
      LET x == heap[last'.arg].val
      IN  /\ x.tag = ExtractTag[last'.op]
          /\ ReadOut(x) = IF last'.ret.k = "handle" THEN heap'[last'.ret.v].val ELSE last'.ret.v

C20_TransactStopsAtFirstFailure ==
    [][(last'.op = "store_transact" /\ last' # last) =>
         LET ran == last'.input
             n == Len(ran)
             s == last'.arg
             env == heap'[last'.ret.v].val
             made == {a \in Addr : heap[a].st = "unalloc" /\ heap'[a].st # "unalloc"}
         IN  /\ n \in 1..Len(TransactSteps)
             /\ \A i \in 1..n : ran[i].step = TransactSteps[i]
             /\ \A i \in 1..(n - 1) : ran[i].ok
             /\ ~ran[n].ok \/ n = Len(TransactSteps)
             /\ fatal' = "none"
             /\ IF \A i \in 1..n : ran[i].ok
                THEN /\ n = Len(TransactSteps)
                     /\ env.ok # NULL /\ env.err = NULL
                     /\ heap'[env.ok].kind = "TxReport" /\ heap'[env.ok].st = "live"
                     /\ heap'[env.ok].val.tx_id = heap[s].val.next_tx
                     /\ heap'[s].val.next_tx = heap[s].val.next_tx + 1
                ELSE /\ env.ok = NULL /\ env.err # NULL
                     /\ heap'[env.err] = Obj("CString", CStr(StepError[ran[n].step], 0))
                     /\ \A a \in made : heap'[a].kind # "TxReport"
                     /\ heap'[s] = heap[s]
                     /\ pending' = pending]_vars

\* The commit failed after begin and transact had succeeded.
C20_Witness ==
    /\ last.op = "store_transact"
    /\ Len(last.input) = 3
    /\ ~last.input[3].ok
    /\ heap[heap[last.ret.v].val.err].val = CStr("err:commit", 0)
    /\ heap[last.arg].val.next_tx = 1
    /\ \A a \in Addr : heap[a].kind # "TxReport"

IterAsOps == NextOps \ {"rows_iter_next", "values_iter_next"}

\* C21: a typed iterator accessor values_iter_next_as_T called while an
\* element remains, on an element whose tag is T, returns a non-null pointer
\* whatever the element's value (a timestamp of 0 included), does not fail and
\* advances the iterator by exactly one element: null means exhaustion only.
C21_NullOnlyAtExhaustion ==
    [][\A it \in Addr :
         ( /\ IsLive(it, "ValIter")
           /\ heap[it].val.rest # <<>>
           /\ last'.op \in IterAsOps
           /\ last'.arg = it
           /\ Head(heap[it].val.rest).tag = ExtractTag[last'.op] )
         => /\ last'.ret.k \notin {"null", "none"}
            /\ fatal' = "none"
            /\ heap'[it].val.rest = Tail(heap[it].val.rest)]_vars

ByValueNextOps ==
    {"values_iter_next_as_long", "values_iter_next_as_entid", "values_iter_next_as_boolean",
     "values_iter_next_as_double", "values_iter_next_as_timestamp"}

\* C22: a non-null pointer returned by a by-value typed iterator accessor
\* (long, entid, boolean, double, timestamp) refers, once the call has
\* returned, to a live allocation that the call made for the caller and that
\* holds the extracted value; it is never storage released at the return.
C22_ReturnedPointerOwned ==
    [][(last'.op \in ByValueNextOps /\ last'.ret.k \notin {"null", "none"}) =>
         /\ last'.ret.k = "handle"
         /\ heap[last'.ret.v].st = "unalloc"
         /\ heap'[last'.ret.v].st = "live"
         /\ heap'[last'.ret.v].val.v = Head(heap[last'.arg].val.rest).v]_vars

\* C23: the change list handed to a callback mirrors the batch it was built
\* from: its len is the number of pairs and of its reports; the i-th report
\* has the transaction id of the i-th pair; its changes are exactly the entity
\* ids of that pair's set, each once, in the set's (ascending) order; its
\* changes_len is their number.
C23_ListMirrorsBatch ==
    [][last'.op = "callback" =>
         \A n \in pending \ pending' :
           LET list == heap'[cb'.list].val
           IN  /\ heap'[cb'.list].kind = "TxChangeList"
               /\ list.len = Len(n.batch)
               /\ Len(list.reports) = Len(n.batch)
               /\ \A i \in 1..Len(n.batch) :
                    LET report == list.reports[i]
                    IN  /\ report.txid = n.batch[i].tx_id
                        /\ {report.changes[j] : j \in 1..Len(report.changes)} = n.batch[i].changes
                        /\ Len(report.changes) = Cardinality(n.batch[i].changes)
                        /\ \A j \in 1..(Len(report.changes) - 1) : report.changes[j] < report.changes[j + 1]
                        /\ report.changes_len = Len(report.changes)]_vars

\* A callback runs on a list of two reports, of different transactions, the
\* first with two changed entities.
C23_Witness ==
    /\ last.op = "callback"
    /\ cb # NoCallback
    /\ heap[cb.list].st = "live"
    /\ heap[cb.list].val.len = 2
    /\ heap[cb.list].val.reports[1].txid # heap[cb.list].val.reports[2].txid
    /\ heap[cb.list].val.reports[1].changes_len = 2
    /\ heap[cb.list].val.reports[2].changes_len = 1

\* The key strings handed to callbacks that are still allocated in heap h
\* (no other string of the boundary holds an observer key).
KeyStrings(h) == {a \in Addr : h[a].kind = "CString" /\ h[a].st = "live" /\ h[a].val.form \in ObsKeys}

\* C24: a notification is queued under the key and for the callback of a
\* registered subscription; each delivery hands that callback a newly
\* allocated string holding that key; the bridge never releases it: the return
\* of the callback leaves it as it was, and only a destroy of that string by
\* the caller ends it.  Each delivery adds one to the outstanding key strings
\* and nothing but such a destroy takes one away.
C24_KeyCopyLeftToCaller ==
    [][/\ \A n \in pending' \ pending :
            \E s \in Stores : \E o \in ObserversOf(heap, s) :
              o.key = n.key /\ o.callback = n.callback
       /\ last'.op = "callback" =>
            \A n \in pending \ pending' :
              /\ heap[cb'.key].st = "unalloc"
              /\ heap'[cb'.key] = Obj("CString", CStr(n.key, 0))
              /\ cb'.callback = n.callback
              /\ KeyStrings(heap') = KeyStrings(heap) \cup {cb'.key}
       /\ last'.op = "callback_return" =>
            /\ heap'[cb.key] = heap[cb.key]
            /\ KeyStrings(heap') = KeyStrings(heap)
       /\ \A a \in KeyStrings(heap) \ KeyStrings(heap') :
            last' = Call("destroy", a, 0, Ret("void", 0))]_vars

\* Two callbacks have returned, nothing was destroyed, and both key strings
\* are still allocated.
C24_Witness ==
    /\ last.op = "callback_return"
    /\ cb = NoCallback
    /\ Cardinality(KeyStrings(heap)) = 2
    /\ Cardinality({a \in Addr : heap[a].kind = "TxChangeList" /\ heap[a].st = "freed"}) = 2
    /\ \A a \in Addr : heap[a].kind = "CString" => heap[a].st = "live"
====
